---- MODULE Spec2Model ----
(***************************************************************************)
(* State-machine model of the webann annotation front-end: the in-memory   *)
(* entity/relation model, the relation validator, the selection engine and  *)
(* the load/save session controller, with the DOM state the handlers read.  *)
(*                                                                          *)
(* JavaScript values are encoded as follows.  null is the string Null,      *)
(* undefined is the string Undef, a text is a string, a document text is a  *)
(* sequence of one-character strings, a JS object used as an ordered map is *)
(* a sequence of [k, v] records with distinct keys, an array used only with *)
(* includes() is a set, a token index that is null is NoIdx.                *)
(***************************************************************************)
EXTENDS Integers, Sequences, FiniteSets, TLC

VARIABLES
    relationsMeta,  \* state.relationsMeta: relation name -> spec, in key order
    current,        \* state.current: [id, text]
    cursor,         \* state.texts.cursor
    selection,      \* state.selection: [startIdx, endIdx]
    annotations,    \* state.annotations
    relations,      \* state.relations
    saved,          \* state.saved: [exists, wasEmpty]
    dirty,          \* ui.dirty
    dragging,       \* ui.dragging
    uiMode,         \* ui.mode
    uiEditId,       \* ui.editId
    relEditingId,   \* ui.relEditingId
    modal,          \* which backdrops are displayed, with the closures of their buttons
    legend,         \* ids of the chips that renderLegend last drew
    relRows,        \* the .rel-row nodes that renderRelationships last drew
    addEnabled,     \* #btn-add is not disabled
    domSelected,    \* indices of the .token spans with data-selected = true
    domAnnotated,   \* indices of the .token spans with data-annotated = true
    tasks,          \* suspended async handlers, each waiting for one response
    backend,        \* the annotation store behind the REST API: text id -> record
    returned        \* the value the function applied last returned

vars == <<relationsMeta, current, cursor, selection, annotations, relations, saved,
          dirty, dragging, uiMode, uiEditId, relEditingId, modal, legend, relRows,
          addEnabled, domSelected, domAnnotated, tasks, backend, returned>>

-----------------------------------------------------------------------------
(* Bounds of the model *)

\* most entities the collection holds before create is cut off
MaxEnts == 2
\* most relations the collection holds before a drop on the relation area is cut off
MaxRels == 1
\* most async handlers suspended at the same time
MaxTasks == 1

-----------------------------------------------------------------------------
(* JavaScript values *)

Null == "null"
Undef == "undefined"
NoIdx == -1

\* !v for the strings, null and undefined the handlers test
Falsy(v) == v \in {Null, Undef, ""}

\* s.trim() === '' for the predicate names of the model
IsBlank(s) == s \in {"", " "}

\* Number.isNaN(Number(v)) is false: the texts of the model that Number() converts
ParsesAsNumber(v) == v \in {"0", "7", "07", "42", " "}

\* Number(raw) of a number input, numbers written as their decimal numeral
NumberOf(raw) == IF raw = "07" THEN "7" ELSE raw

Max(a, b) == IF a >= b THEN a ELSE b

RECURSIVE SeqFilterIdx(_, _, _)
\* the indices i (ascending) of s from index k on, for which keep[i] holds
SeqFilterIdx(keep, n, k) ==
    IF k > n THEN <<>>
    ELSE (IF keep[k] THEN <<k>> ELSE <<>>) \o SeqFilterIdx(keep, n, k + 1)

\* Array.prototype.filter: the elements of s that satisfy Test, in order
Filter(s, Test(_)) ==
    LET keep == [i \in 1..Len(s) |-> Test(s[i])]
        idx == SeqFilterIdx(keep, Len(s), 1)
    IN [j \in 1..Len(idx) |-> s[idx[j]]]

\* Array.prototype.find as an index: the first i with Test(s[i]), or 0
FindIdx(s, Test(_)) ==
    IF \E i \in 1..Len(s) : Test(s[i])
    THEN CHOOSE i \in 1..Len(s) : Test(s[i]) /\ \A j \in 1..(i - 1) : ~Test(s[j])
    ELSE 0

Range(s) == {s[i] : i \in 1..Len(s)}

\* obj[name] of an ordered map
Get(obj, name) ==
    LET i == FindIdx(obj, LAMBDA e : e.k = name)
    IN IF i = 0 THEN Undef ELSE obj[i].v

\* name in obj
HasKey(obj, name) == \E i \in 1..Len(obj) : obj[i].k = name

\* Object.keys(obj)
Keys(obj) == [i \in 1..Len(obj) |-> obj[i].k]

\* obj[name] = v: an existing key keeps its place, a new key goes last
Put(obj, name, val) ==
    LET i == FindIdx(obj, LAMBDA e : e.k = name)
    IN IF i = 0 THEN Append(obj, [k |-> name, v |-> val])
       ELSE [obj EXCEPT ![i] = [k |-> name, v |-> val]]

-----------------------------------------------------------------------------
(* Tokenizer *)

IsSpaceCh(c) == c \in {" ", "\t"}
IsWordCh(c) == c \in {"a", "b", "c", "d", "x", "_", "1"}

\* a classing with two alternatives, whitespace and everything else
ChClassSpaceOrNot(c) == IF IsSpaceCh(c) THEN "space" ELSE "word"

\* which alternative of /(\s+|\w+|[^\w\s])/ a character starts
ChClass(c) == IF IsSpaceCh(c) THEN "space" ELSE IF IsWordCh(c) THEN "word" ELSE "other"

RECURSIVE MatchEnd(_, _, _)
\* the end (exclusive, 0-based) of the greedy match of class cls that holds text[i+1..e]
MatchEnd(text, cls, e) ==
    IF cls /= "other" /\ e < Len(text) /\ ChClass(text[e + 1]) = cls
    THEN MatchEnd(text, cls, e + 1)
    ELSE e

RECURSIVE TokenizeFrom(_, _)
TokenizeFrom(text, i) ==
    IF i >= Len(text) THEN <<>>
    ELSE LET cls == ChClass(text[i + 1])
             e == MatchEnd(text, cls, i + 1)
             tok == SubSeq(text, i + 1, e)
         IN <<[text |-> tok, start |-> i, end |-> i + Len(tok),
               isSpace |-> \E k \in 1..Len(tok) : IsSpaceCh(tok[k])]>>
            \o TokenizeFrom(text, i + Len(tok))

\* a tokenizer that leaves the whitespace runs out
tokenizeWithoutSpaces(text) == Filter(TokenizeFrom(text, 0), LAMBDA t : ~t.isSpace)

tokenizeWithOffsets(text) == TokenizeFrom(text, 0)

\* state.tokens: renderText sets it from state.current.text on every load
tokens == tokenizeWithOffsets(current.text)

\* token i (0-based) of a token list
Tok(toks, i) == toks[i + 1]

\* the indices of the .token spans renderText draws (space tokens are text nodes)
TokenNodes(toks) == {i \in 0..(Len(toks) - 1) : ~Tok(toks, i).isSpace}

-----------------------------------------------------------------------------
(* core helpers *)

\* entityById(id) as an index into state.annotations, 0 when it returns null
entityIdx(annos, id) == FindIdx(annos, LAMBDA a : a.id = id)

RECURSIVE SpanLoop(_, _, _, _, _, _)
\* the for loop of spanToTokenRange from token i on, with the i0, i1 found so far
SpanLoop(toks, start, end, i, i0, i1) ==
    IF i >= Len(toks) THEN <<i0, i1>>
    ELSE LET t == Tok(toks, i)
         IN IF t.isSpace THEN SpanLoop(toks, start, end, i + 1, i0, i1)
            ELSE LET n0 == IF i0 = NoIdx /\ t.end > start THEN i ELSE i0
                     n1 == IF t.start < end THEN i ELSE i1
                 IN IF t.start >= end THEN <<n0, n1>>
                    ELSE SpanLoop(toks, start, end, i + 1, n0, n1)

\* spanToTokenRange(span): <<i0, i1>>, or <<NoIdx, NoIdx>> for null
spanToTokenRange(toks, span) ==
    LET r == SpanLoop(toks, span.start, span.end, 0, NoIdx, NoIdx)
    IN IF r[1] = NoIdx \/ r[2] = NoIdx THEN <<NoIdx, NoIdx>> ELSE r

RECURSIVE TrimLeft(_)
TrimLeft(s) == IF Len(s) > 0 /\ IsSpaceCh(s[1]) THEN TrimLeft(Tail(s)) ELSE s

RECURSIVE TrimRight(_)
TrimRight(s) ==
    IF Len(s) > 0 /\ IsSpaceCh(s[Len(s)]) THEN TrimRight(SubSeq(s, 1, Len(s) - 1)) ELSE s

\* String.prototype.trim
Trim(s) == TrimRight(TrimLeft(s))

RECURSIVE SurfaceParts(_, _, _)
\* the parts pushed by the loop of surfaceFormFromSelection for i..endIdx, joined
SurfaceParts(toks, i, endIdx) ==
    IF i > endIdx THEN <<>>
    ELSE LET here ==
                 IF i >= Len(toks) \/ Tok(toks, i).isSpace THEN <<>>
                 ELSE Tok(toks, i).text
                      \o (IF i + 1 < Len(toks) /\ Tok(toks, i + 1).isSpace
                          THEN Tok(toks, i + 1).text ELSE <<>>)
         IN here \o SurfaceParts(toks, i + 1, endIdx)

\* a surface form that is not trimmed
surfaceFormUntrimmed(toks, sel) ==
    IF sel.startIdx = NoIdx \/ sel.endIdx = NoIdx THEN <<>>
    ELSE SurfaceParts(toks, sel.startIdx, sel.endIdx)

\* surfaceFormFromSelection() for state.tokens and state.selection
surfaceFormFromSelection(toks, sel) ==
    IF sel.startIdx = NoIdx \/ sel.endIdx = NoIdx THEN <<>>
    ELSE Trim(SurfaceParts(toks, sel.startIdx, sel.endIdx))

-----------------------------------------------------------------------------
(* Schema *)

\* state.classes: class name -> attribute specs (in Object.entries order)
classes ==
    [Person |-> <<>>,
     Org |-> <<[name |-> "size", type |-> "number", nullable |-> TRUE, enum |-> {}]>>]

ClassNames == DOMAIN classes

\* one attribute spec of a relation, as an entry of the attributes map; nullable is
\* "true", "false" or Undef, enum the list of allowed values, classes the class list
AttrSpec(n, kd, nl, en, cl) ==
    [k |-> n, v |-> [name |-> n, kind |-> kd, nullable |-> nl, enum |-> en, classes |-> cl]]

\* spec.subject?.includes(c) on a spec that may be undefined
SubjectOk(meta, name, c) == HasKey(meta, name) /\ c \in Get(meta, name).subject
ObjectOk(meta, name, c) == HasKey(meta, name) /\ c \in Get(meta, name).object

\* one relation spec; subject and object are the class lists, attributes an ordered map
RelSpec(subj, obj, attrs) == [subject |-> subj, object |-> obj, attributes |-> attrs]

-----------------------------------------------------------------------------
(* Relation validator *)

MsgIncomplete == "Relation needs subject, type, and object"
MsgUnknown == "Unknown relation"
MsgDangling == "Dangling entity reference"
MsgClasses == "Classes not allowed for this relation"
MsgMissing(name) == "Missing required attribute: " \o name
MsgEnum(name) == "'" \o name \o "' has invalid value"
MsgNumber(name) == "'" \o name \o "' must be a number"
RECURSIVE Join(_, _)
\* Array.prototype.join
Join(names, sep) ==
    IF Len(names) = 0 THEN ""
    ELSE IF Len(names) = 1 THEN names[1]
    ELSE names[1] \o sep \o Join(Tail(names), sep)

MsgEntity(name, classList) == "'" \o name \o "' must refer to a " \o Join(classList, " or ")

\* v === undefined || v === null || v === ''
Absent(v) == v \in {Undef, Null, ""}

\* an attribute check that takes any existing entity for an entity value
attrReasonAnyClass(annos, r, aspec) ==
    LET v == Get(r.attrs, aspec.name)
    IN IF Absent(v) /\ aspec.nullable = "false" THEN MsgMissing(aspec.name)
       ELSE IF Absent(v) THEN ""
       ELSE IF aspec.kind = "enum"
            THEN (IF v \notin Range(aspec.enum) THEN MsgEnum(aspec.name) ELSE "")
       ELSE IF aspec.kind = "number"
            THEN (IF ~ParsesAsNumber(v) THEN MsgNumber(aspec.name) ELSE "")
       ELSE IF aspec.kind = "entity"
            THEN (IF entityIdx(annos, v) = 0
                  THEN MsgEntity(aspec.name, aspec.classes) ELSE "")
       ELSE ""

\* an attribute check that does not look an entity value up
attrReasonNoLookup(annos, r, aspec) ==
    LET v == Get(r.attrs, aspec.name)
    IN IF Absent(v) /\ aspec.nullable = "false" THEN MsgMissing(aspec.name)
       ELSE IF Absent(v) THEN ""
       ELSE IF aspec.kind = "enum"
            THEN (IF v \notin Range(aspec.enum) THEN MsgEnum(aspec.name) ELSE "")
       ELSE IF aspec.kind = "number"
            THEN (IF ~ParsesAsNumber(v) THEN MsgNumber(aspec.name) ELSE "")
       ELSE ""

\* the body of the attribute loop for one attribute: the message highlighted, or ""
attrReason(annos, r, aspec) ==
    LET v == Get(r.attrs, aspec.name)
    IN IF Absent(v) /\ aspec.nullable = "false" THEN MsgMissing(aspec.name)
       ELSE IF Absent(v) THEN ""
       ELSE IF aspec.kind = "enum"
            THEN (IF v \notin Range(aspec.enum) THEN MsgEnum(aspec.name) ELSE "")
       ELSE IF aspec.kind = "number"
            THEN (IF ~ParsesAsNumber(v) THEN MsgNumber(aspec.name) ELSE "")
       ELSE IF aspec.kind = "entity"
            THEN (LET e == entityIdx(annos, v)
                  IN IF e = 0 \/ annos[e].class \notin Range(aspec.classes)
                     THEN MsgEntity(aspec.name, aspec.classes) ELSE "")
       ELSE ""

RECURSIVE attrLoopWithoutBreak(_, _, _, _)
\* an attribute loop that goes on after a message: the last message stays
attrLoopWithoutBreak(annos, r, attrs, k) ==
    IF k > Len(attrs) THEN ""
    ELSE LET m == attrReason(annos, r, attrs[k].v)
             later == attrLoopWithoutBreak(annos, r, attrs, k + 1)
         IN IF later /= "" THEN later ELSE m

RECURSIVE attrLoop(_, _, _, _)
\* the attribute loop from attribute k on: it breaks at the first message
attrLoop(annos, r, attrs, k) ==
    IF k > Len(attrs) THEN ""
    ELSE LET m == attrReason(annos, r, attrs[k].v)
         IN IF m /= "" THEN m ELSE attrLoop(annos, r, attrs, k + 1)

\* a validator that looks the predicate up before it looks at the endpoints
relationReasonPredicateFirst(meta, annos, r) ==
    IF Falsy(r.predicate) \/ IsBlank(r.predicate) THEN MsgIncomplete
    ELSE IF ~HasKey(meta, r.predicate) THEN MsgUnknown
    ELSE IF Falsy(r.subject) \/ Falsy(r.object) THEN MsgIncomplete
    ELSE LET spec == Get(meta, r.predicate)
             left == entityIdx(annos, r.subject)
             right == entityIdx(annos, r.object)
         IN IF left = 0 \/ right = 0 THEN MsgDangling
            ELSE LET fwd == annos[left].class \in spec.subject
                            /\ annos[right].class \in spec.object
                     rev == annos[right].class \in spec.subject
                            /\ annos[left].class \in spec.object
                 IN IF ~fwd /\ ~rev THEN MsgClasses
                    ELSE attrLoop(annos, r, spec.attributes, 1)

\* one iteration of the loop of validateRelations: the message highlighted, or ""
relationReason(meta, annos, r) ==
    IF Falsy(r.subject) \/ Falsy(r.object) \/ Falsy(r.predicate) \/ IsBlank(r.predicate)
    THEN MsgIncomplete
    ELSE IF ~HasKey(meta, r.predicate) THEN MsgUnknown
    ELSE LET spec == Get(meta, r.predicate)
             left == entityIdx(annos, r.subject)
             right == entityIdx(annos, r.object)
         IN IF left = 0 \/ right = 0 THEN MsgDangling
            ELSE LET fwd == annos[left].class \in spec.subject
                            /\ annos[right].class \in spec.object
                     rev == annos[right].class \in spec.subject
                            /\ annos[left].class \in spec.object
                 IN IF ~fwd /\ ~rev THEN MsgClasses
                    ELSE attrLoop(annos, r, spec.attributes, 1)

\* a validator that passes every relation
validateNothing(meta, annos, rels) ==
    [ok |-> TRUE, reasons |-> [i \in 1..Len(rels) |-> ""]]

\* validateRelations(): the value returned and the message highlighted per relation
validateRelations(meta, annos, rels) ==
    LET reasons == [i \in 1..Len(rels) |-> relationReason(meta, annos, rels[i])]
    IN [ok |-> \A i \in 1..Len(rels) : reasons[i] = "", reasons |-> reasons]

\* document.querySelector('.rel-row[data-rel-id=id]') as an index into the rows, or 0
rowById(rows, id) == FindIdx(rows, LAMBDA w : w.rel.id = id)

\* a highlight that adds its message to the text the row shows
highlightAppending(row, msg) == [row EXCEPT !.err = row.err \o msg]

\* highlight(msg) on a row: err.textContent = msg || 'Incomplete relation'
highlight(row, msg) == [row EXCEPT !.err = IF msg = "" THEN "Incomplete relation" ELSE msg]

RECURSIVE highlightRows(_, _, _, _)
\* the .rel-error texts after the highlight calls for relations k.. of validateRelations
highlightRows(rows, rels, reasons, k) ==
    IF k > Len(rels) THEN rows
    ELSE LET w == rowById(rows, rels[k].id)
         IN highlightRows(
                IF reasons[k] /= "" /\ w /= 0
                THEN [rows EXCEPT ![w] = highlight(rows[w], reasons[k])] ELSE rows,
                rels, reasons, k + 1)

-----------------------------------------------------------------------------
(* Documents and the annotation store behind the REST API *)

\* the texts the backend serves, by cursor; a text's id is its cursor
Corpus == << <<"a", "b", " ", "c">>, <<"c", ".">> >>

Total == Len(Corpus)

DocIds == 0..(Total - 1)

\* the {id, text, cursor, total} answer of GET /texts/next and /texts/prev
TextAt(c) == [id |-> c, text |-> Corpus[c + 1], cursor |-> c]

NoRecord == [exists |-> FALSE, entities |-> <<>>, relations |-> <<>>]

NoPayload == [text_id |-> NoIdx, entities |-> <<>>, relations |-> <<>>]

\* the record the store keeps of a payload posted to /annotations
Stored(payload) ==
    [exists |-> TRUE, entities |-> payload.entities, relations |-> payload.relations]

-----------------------------------------------------------------------------
(* Rendering: the DOM state the handlers read back *)

NoOrder == [has |-> FALSE, subject |-> <<>>, object |-> <<>>, statement |-> <<>>]

\* the chips renderLegend draws, one per annotation, by the id each carries
renderLegend(annos) == {annos[i].id : i \in 1..Len(annos)}

\* relRowDOM(rel): a chip where the endpoint resolves, a placeholder where not
relRowDOM(annos, rel, i) ==
    [rel |-> rel, live |-> i,
     phS |-> (Falsy(rel.subject) \/ entityIdx(annos, rel.subject) = 0),
     phO |-> (Falsy(rel.object) \/ entityIdx(annos, rel.object) = 0),
     err |-> ""]

\* renderRelationships(): one fresh row per relation
renderRelationships(annos, rels) ==
    [i \in 1..Len(rels) |-> relRowDOM(annos, rels[i], i)]

\* the rows left in the DOM when state.relations is filtered and not rendered again:
\* a row whose relation was removed keeps its closure, the others follow their object
staleRows(rows, keep) ==
    [w \in 1..Len(rows) |->
        IF rows[w].live = 0 \/ ~keep[rows[w].live]
        THEN [rows[w] EXCEPT !.live = 0]
        ELSE [rows[w] EXCEPT
                 !.live = Cardinality({j \in 1..rows[w].live : keep[j]})]]

ModalClosed ==
    [entity |-> FALSE, entLabel |-> <<>>,
     relation |-> FALSE, relId |-> Null, relOptions |-> <<>>, relValue |-> "",
     relFields |-> [subject |-> <<>>, object |-> <<>>, statement |-> <<>>, edge |-> FALSE],
     relInputs |-> <<>>,
     overwrite |-> FALSE, ovPayload |-> NoPayload,
     delall |-> FALSE]

\* a backdrop covers the page: only the buttons of an open modal can be clicked
PageFree == ~modal.entity /\ ~modal.relation /\ ~modal.overwrite /\ ~modal.delall

\* no function has been applied yet
NoResult == [done |-> FALSE, ok |-> TRUE, reasons |-> <<>>, calls |-> 0]

NoSelection == [startIdx |-> NoIdx, endIdx |-> NoIdx]


-----------------------------------------------------------------------------------------------------------------------------------------------------
(* Token highlighting: render/text.js, render/text_highlight.js *)

\* updateSelectionHighlight(): the spans flagged selected for a selection
updateSelectionHighlight(toks, sel) ==
    IF sel.startIdx = NoIdx \/ sel.endIdx = NoIdx THEN {}
    ELSE {i \in TokenNodes(toks) : sel.startIdx <= i /\ i <= sel.endIdx}

\* applyAnnotationHighlights(): the spans flagged annotated; it also resets every
\* span's data-selected to false
applyAnnotationHighlights(toks, annos) ==
    {i \in TokenNodes(toks) :
        \E k \in 1..Len(annos) :
            annos[k].tokenRange[1] <= i /\ i <= annos[k].tokenRange[2]}

-----------------------------------------------------------------------------
(* Selection: render/text.js *)

onMouseDown(idx) ==
    /\ PageFree
    /\ idx \in TokenNodes(tokens)
    /\ dragging' = TRUE
    /\ selection' = [startIdx |-> idx, endIdx |-> idx]
    /\ domSelected' = updateSelectionHighlight(tokens, selection')
    /\ UNCHANGED returned
    /\ UNCHANGED <<relationsMeta, current, cursor, annotations, relations, saved, dirty,
                   uiMode, uiEditId, relEditingId, modal, legend, relRows, addEnabled,
                   domAnnotated, tasks, backend>>

onMouseMove(idx) ==
    /\ PageFree
    /\ dragging
    /\ idx \in TokenNodes(tokens)
    /\ selection' = IF idx < selection.startIdx
                    THEN [startIdx |-> idx, endIdx |-> selection.startIdx]
                    ELSE [selection EXCEPT !.endIdx = idx]
    /\ domSelected' = updateSelectionHighlight(tokens, selection')
    /\ UNCHANGED returned
    /\ UNCHANGED <<relationsMeta, current, cursor, annotations, relations, saved, dirty,
                   dragging, uiMode, uiEditId, relEditingId, modal, legend, relRows,
                   addEnabled, domAnnotated, tasks, backend>>

\* mouseup is bound to window: it is delivered over a backdrop too
onMouseUp ==
    /\ dragging
    /\ dragging' = FALSE
    /\ addEnabled' = (selection.startIdx /= NoIdx /\ selection.endIdx /= NoIdx)
    /\ UNCHANGED returned
    /\ UNCHANGED <<relationsMeta, current, cursor, selection, annotations, relations,
                   saved, dirty, uiMode, uiEditId, relEditingId, modal, legend, relRows,
                   domSelected, domAnnotated, tasks, backend>>

\* clearSelection(): #btn-clear, or the Escape key, which a backdrop does not stop
clearSelection ==
    /\ selection' = NoSelection
    /\ domSelected' = {}
    /\ addEnabled' = FALSE
    /\ UNCHANGED returned
    /\ UNCHANGED <<relationsMeta, current, cursor, annotations, relations, saved, dirty,
                   dragging, uiMode, uiEditId, relEditingId, modal, legend, relRows,
                   domAnnotated, tasks, backend>>

-----------------------------------------------------------------------------
(* Entity modal: modals/entity.js *)

\* the id confirmSaveAnnotation and the relation drop zone give: prefix + (length + 1)
SeqId(prefix, coll) == prefix \o ToString(Len(coll) + 1)

\* the attrs object confirmSaveAnnotation builds when every field holds raw
entityAttrs(klass, raw) ==
    LET specs == IF klass \in DOMAIN classes THEN classes[klass] ELSE <<>>
    IN [i \in 1..Len(specs) |->
           [k |-> specs[i].name,
            v |-> IF raw = "" /\ specs[i].nullable THEN Null
                  ELSE IF specs[i].type = "number"
                       THEN (IF raw = "" THEN Null ELSE NumberOf(raw))
                  ELSE raw]]

\* openEntityModal(mode, annoId): #btn-add (mode create) or a legend chip (mode edit)
openEntityModal(mode, annoId) ==
    /\ PageFree
    /\ IF mode = "create" THEN addEnabled /\ annoId = Null ELSE annoId \in legend
    /\ uiMode' = mode
    /\ uiEditId' = annoId
    /\ LET a == entityIdx(annotations, annoId)
       IN modal' = [modal EXCEPT
              !.entity = TRUE,
              !.entLabel = IF mode = "create"
                           THEN surfaceFormFromSelection(tokens, selection)
                           ELSE IF a = 0 THEN <<>> ELSE annotations[a].label]
    /\ UNCHANGED returned
    /\ UNCHANGED <<relationsMeta, current, cursor, selection, annotations, relations,
                   saved, dirty, dragging, relEditingId, legend, relRows, addEnabled,
                   domSelected, domAnnotated, tasks, backend>>

closeEntityModal ==
    /\ modal.entity
    /\ modal' = [modal EXCEPT !.entity = FALSE, !.entLabel = <<>>]
    /\ UNCHANGED returned
    /\ UNCHANGED <<relationsMeta, current, cursor, selection, annotations, relations,
                   saved, dirty, dragging, uiMode, uiEditId, relEditingId, legend,
                   relRows, addEnabled, domSelected, domAnnotated, tasks, backend>>

\* the annotations without the one at place a
RemoveEntity(annos, a) == [i \in 1..(Len(annos) - 1) |-> IF i < a THEN annos[i] ELSE annos[i + 1]]

\* an annotation whose span ends with the first selected token
newAnnotationSpanOfFirst(klass, label, raw) ==
    [id |-> SeqId("T", annotations),
     class |-> klass,
     label |-> label,
     attrs |-> entityAttrs(klass, raw),
     span |-> [start |-> Tok(tokens, selection.startIdx).start,
               end |-> Tok(tokens, selection.startIdx).end],
     tokenRange |-> <<selection.startIdx, selection.endIdx>>]

\* the annotation confirmSaveAnnotation pushes in create mode
newAnnotation(klass, label, raw) ==
    [id |-> SeqId("T", annotations),
     class |-> klass,
     label |-> label,
     attrs |-> entityAttrs(klass, raw),
     span |-> [start |-> Tok(tokens, selection.startIdx).start,
               end |-> Tok(tokens, selection.endIdx).end],
     tokenRange |-> <<selection.startIdx, selection.endIdx>>]

\* a confirmSaveAnnotation that, in edit mode, takes the entity out and pushes it again
confirmedAnnotationsPushingEdit(klass, label, raw) ==
    IF uiMode = "create"
    THEN IF selection.startIdx = NoIdx \/ selection.endIdx = NoIdx THEN annotations
         ELSE Append(annotations, newAnnotation(klass, label, raw))
    ELSE LET a == entityIdx(annotations, uiEditId)
         IN IF a = 0 THEN annotations
            ELSE Append(RemoveEntity(annotations, a),
                        [annotations[a] EXCEPT !.class = klass, !.label = label,
                                               !.attrs = entityAttrs(klass, raw)])

\* the annotations after confirmSaveAnnotation; unchanged where it returns early
confirmedAnnotations(klass, label, raw) ==
    IF uiMode = "create"
    THEN IF selection.startIdx = NoIdx \/ selection.endIdx = NoIdx THEN annotations
         ELSE Append(annotations, newAnnotation(klass, label, raw))
    ELSE LET a == entityIdx(annotations, uiEditId)
         IN IF a = 0 THEN annotations
            ELSE [annotations EXCEPT ![a].class = klass, ![a].label = label,
                                     ![a].attrs = entityAttrs(klass, raw)]

\* confirmSaveAnnotation(): #btn-confirm with class klass chosen, labelValue in
\* #inp-label and raw in every attribute field
confirmSaveAnnotation(klass, labelValue, raw) ==
    /\ modal.entity
    /\ uiMode \in {"create", "edit"}
    /\ LET label == IF Trim(labelValue) /= <<>> THEN Trim(labelValue)
                    ELSE surfaceFormFromSelection(tokens, selection)
           early == IF uiMode = "create"
                    THEN selection.startIdx = NoIdx \/ selection.endIdx = NoIdx
                    ELSE entityIdx(annotations, uiEditId) = 0
       IN IF early
          THEN /\ UNCHANGED returned
               /\ UNCHANGED <<annotations, dirty, domSelected, domAnnotated, legend,
                              modal, addEnabled, selection>>
          ELSE /\ uiMode = "create" => Len(annotations) < MaxEnts
               /\ annotations' = confirmedAnnotations(klass, label, raw)
               /\ dirty' = TRUE
               /\ domSelected' = {}
               /\ domAnnotated' = applyAnnotationHighlights(tokens, annotations')
               /\ legend' = renderLegend(annotations')
               /\ modal' = [modal EXCEPT !.entity = FALSE, !.entLabel = <<>>]
               /\ addEnabled' = FALSE
               /\ selection' = NoSelection
               /\ UNCHANGED returned
    /\ UNCHANGED <<relationsMeta, current, cursor, relations, saved, dragging, uiMode,
                   uiEditId, relEditingId, relRows, tasks, backend>>

\* which relations the filter of deleteAnnotation keeps, by position
cascadeKeep(rels, id) == [j \in 1..Len(rels) |-> rels[j].subject /= id /\ rels[j].object /= id]

\* a cascade that looks at the subject only
cascadeSubjectOnly(rels, id) == Filter(rels, LAMBDA r : r.subject /= id)

\* state.relations.filter(r => r.subject !== id && r.object !== id)
cascade(rels, id) == Filter(rels, LAMBDA r : r.subject /= id /\ r.object /= id)

\* deleteAnnotation(): #btn-delete of the entity modal
deleteAnnotation ==
    /\ modal.entity
    /\ uiMode = "edit"
    /\ annotations' = Filter(annotations, LAMBDA a : a.id /= uiEditId)
    /\ relations' = cascade(relations, uiEditId)
    /\ relRows' = staleRows(relRows, cascadeKeep(relations, uiEditId))
    /\ dirty' = TRUE
    /\ domSelected' = {}
    /\ domAnnotated' = applyAnnotationHighlights(tokens, annotations')
    /\ legend' = renderLegend(annotations')
    /\ modal' = [modal EXCEPT !.entity = FALSE, !.entLabel = <<>>]
    /\ UNCHANGED returned
    /\ UNCHANGED <<relationsMeta, current, cursor, selection, saved, dragging, uiMode,
                   uiEditId, relEditingId, addEnabled, tasks, backend>>

-----------------------------------------------------------------------------
(* Delete all: main.js, modals/common.js *)

\* #btn-delete-all: renderLegend disables it when it draws no chip
deleteAllClick ==
    /\ PageFree
    /\ legend /= {}
    /\ Len(annotations) > 0
    /\ modal' = [modal EXCEPT !.delall = TRUE]
    /\ UNCHANGED returned
    /\ UNCHANGED <<relationsMeta, current, cursor, selection, annotations, relations,
                   saved, dirty, dragging, uiMode, uiEditId, relEditingId, legend,
                   relRows, addEnabled, domSelected, domAnnotated, tasks, backend>>

deleteAllConfirm ==
    /\ modal.delall
    /\ modal' = [modal EXCEPT !.delall = FALSE]
    /\ annotations' = <<>>
    /\ relations' = <<>>
    /\ dirty' = TRUE
    /\ domSelected' = {}
    /\ domAnnotated' = {}
    /\ legend' = {}
    /\ relRows' = <<>>
    /\ UNCHANGED returned
    /\ UNCHANGED <<relationsMeta, current, cursor, selection, saved, dragging, uiMode,
                   uiEditId, relEditingId, addEnabled, tasks, backend>>

deleteAllCancel ==
    /\ modal.delall
    /\ modal' = [modal EXCEPT !.delall = FALSE]
    /\ UNCHANGED returned
    /\ UNCHANGED <<relationsMeta, current, cursor, selection, annotations, relations,
                   saved, dirty, dragging, uiMode, uiEditId, relEditingId, legend,
                   relRows, addEnabled, domSelected, domAnnotated, tasks, backend>>

-----------------------------------------------------------------------------
(* Relation rows: main.js (drop zone), render/relations.js *)

\* an orientation test that answers reverse whenever the reverse test passes
relationOrientationReverseFirst(meta, relName, leftClass, rightClass) ==
    IF ~HasKey(meta, relName) \/ Falsy(leftClass) \/ Falsy(rightClass) THEN Null
    ELSE LET spec == Get(meta, relName)
             fwd == leftClass \in spec.subject /\ rightClass \in spec.object
             rev == rightClass \in spec.subject /\ leftClass \in spec.object
         IN IF rev THEN "reverse"
            ELSE IF fwd THEN "forward"
            ELSE Null

relationOrientationForPair(meta, relName, leftClass, rightClass) ==
    IF ~HasKey(meta, relName) \/ Falsy(leftClass) \/ Falsy(rightClass) THEN Null
    ELSE LET spec == Get(meta, relName)
             fwd == leftClass \in spec.subject /\ rightClass \in spec.object
             rev == rightClass \in spec.subject /\ leftClass \in spec.object
         IN IF fwd /\ ~rev THEN "forward"
            ELSE IF rev /\ ~fwd THEN "reverse"
            ELSE IF fwd /\ rev THEN "both"
            ELSE Null

\* a role test that reads each role from the class list of the other
firstEntityRoleListsExchanged(meta, relName, klass) ==
    IF ~HasKey(meta, relName) THEN Null
    ELSE LET spec == Get(meta, relName)
             subjOk == klass \in spec.object
             objOk == klass \in spec.subject
         IN IF subjOk /\ ~objOk THEN "subject"
            ELSE IF ~subjOk /\ objOk THEN "object"
            ELSE IF subjOk /\ objOk THEN "either"
            ELSE Null

firstEntityRoleFor(meta, relName, klass) ==
    IF ~HasKey(meta, relName) THEN Null
    ELSE LET spec == Get(meta, relName)
             subjOk == klass \in spec.subject
             objOk == klass \in spec.object
         IN IF subjOk /\ ~objOk THEN "subject"
            ELSE IF ~subjOk /\ objOk THEN "object"
            ELSE IF subjOk /\ objOk THEN "either"
            ELSE Null

relationAllowedBidirectional(meta, leftClass, rightClass, relName) ==
    IF ~HasKey(meta, relName) THEN FALSE
    ELSE LET spec == Get(meta, relName)
         IN IF Falsy(leftClass) /\ Falsy(rightClass) THEN TRUE
            ELSE IF ~Falsy(leftClass) /\ Falsy(rightClass)
                 THEN leftClass \in spec.subject \/ leftClass \in spec.object
            ELSE IF Falsy(leftClass) /\ ~Falsy(rightClass)
                 THEN rightClass \in spec.subject \/ rightClass \in spec.object
            ELSE (leftClass \in spec.subject /\ rightClass \in spec.object)
                 \/ (rightClass \in spec.subject /\ leftClass \in spec.object)

\* getAllowedRelationNames(leftClass, rightClass), in the key order of the schema
getAllowedRelationNames(meta, leftClass, rightClass) ==
    Filter(Keys(meta), LAMBDA n : relationAllowedBidirectional(meta, leftClass, rightClass, n))

\* the class of the entity an endpoint resolves to, or null
classOf(annos, id) ==
    LET e == IF Falsy(id) THEN 0 ELSE entityIdx(annos, id)
    IN IF e = 0 THEN Null ELSE annos[e].class

\* the drop handler of #rels-drop, with the text the drag carries (the id of a chip,
\* or any other dragged text), on a relation area of fewer than cap rows
relsDrop(cap, entId) ==
    /\ PageFree
    /\ ~Falsy(entId)
    /\ Len(relations) < cap
    /\ relations' = Append(relations,
           [id |-> SeqId("R", relations), predicate |-> Null, subject |-> entId,
            object |-> Null, attrs |-> <<>>, attrOrder |-> NoOrder])
    /\ dirty' = TRUE
    /\ relRows' = renderRelationships(annotations, relations')
    /\ UNCHANGED returned
    /\ UNCHANGED <<relationsMeta, current, cursor, selection, annotations, saved,
                   dragging, uiMode, uiEditId, relEditingId, modal, legend, addEnabled,
                   domSelected, domAnnotated, tasks, backend>>

\* a placeholder that does not compare the dropped id with the other endpoint
placeholderAcceptsSameEntity(meta, annos, rel, side, entId) ==
    /\ entityIdx(annos, entId) /= 0
    /\ ~Falsy(rel.predicate) =>
           IF side = "subject"
           THEN SubjectOk(meta, rel.predicate, annos[entityIdx(annos, entId)].class)
           ELSE ObjectOk(meta, rel.predicate, annos[entityIdx(annos, entId)].class)

\* a placeholder that does not look the class up in the spec of the predicate
placeholderAcceptsAnyClass(meta, annos, rel, side, entId) ==
    /\ ~(side = "subject" /\ rel.object = entId)
    /\ ~(side = "object" /\ rel.subject = entId)
    /\ entityIdx(annos, entId) /= 0

\* whether the drop handler of a placeholder gets past its early returns
placeholderAccepts(meta, annos, rel, side, entId) ==
    /\ ~(side = "subject" /\ rel.object = entId)
    /\ ~(side = "object" /\ rel.subject = entId)
    /\ entityIdx(annos, entId) /= 0
    /\ ~Falsy(rel.predicate) =>
           IF side = "subject"
           THEN SubjectOk(meta, rel.predicate, annos[entityIdx(annos, entId)].class)
           ELSE ObjectOk(meta, rel.predicate, annos[entityIdx(annos, entId)].class)

\* the drop handler of the placeholder on `side` of row w, with the id of the chip
placeholderDrop(w, side, entId) ==
    /\ PageFree
    /\ w \in 1..Len(relRows)
    /\ IF side = "subject" THEN relRows[w].phS ELSE relRows[w].phO
    /\ entId \in legend
    /\ IF placeholderAccepts(relationsMeta, annotations, relRows[w].rel, side, entId)
       THEN /\ relations' =
                   IF relRows[w].live = 0 THEN relations
                   ELSE IF side = "subject"
                        THEN [relations EXCEPT ![relRows[w].live].subject = entId]
                        ELSE [relations EXCEPT ![relRows[w].live].object = entId]
            /\ relRows' = renderRelationships(annotations, relations')
            /\ UNCHANGED returned
       ELSE /\ UNCHANGED <<relations, relRows>>
            /\ UNCHANGED returned
    /\ UNCHANGED <<relationsMeta, current, cursor, selection, annotations, saved, dirty,
                   dragging, uiMode, uiEditId, relEditingId, modal, legend, addEnabled,
                   domSelected, domAnnotated, tasks, backend>>

\* the click handler of the remove button of row w
relRowRemove(w) ==
    /\ PageFree
    /\ w \in 1..Len(relRows)
    /\ relations' = Filter(relations, LAMBDA r : r.id /= relRows[w].rel.id)
    /\ relRows' = renderRelationships(annotations, relations')
    /\ UNCHANGED returned
    /\ UNCHANGED <<relationsMeta, current, cursor, selection, annotations, saved, dirty,
                   dragging, uiMode, uiEditId, relEditingId, modal, legend, addEnabled,
                   domSelected, domAnnotated, tasks, backend>>

-----------------------------------------------------------------------------
(* Relation editor: modals/relation.js *)

\* the attribute names of the model that start with subject_ and with object_
SubjectPrefixed == {"subject_role"}
ObjectPrefixed == {"object_role"}

classifyAttrName(name) ==
    IF name = "edge_predicate" THEN "predicate"
    ELSE IF name \in SubjectPrefixed THEN "subject"
    ELSE IF name \in ObjectPrefixed THEN "object"
    ELSE "statement"

\* a splitSpecOrder that puts every name in every group
splitSpecOrderUnclassified(attrs, g) == Keys(attrs)

\* splitSpecOrder(attrs)[g]
splitSpecOrder(attrs, g) == Filter(Keys(attrs), LAMBDA n : classifyAttrName(n) = g)

\* orders[g] of an attrOrder
OrderOf(orders, g) ==
    IF g = "subject" THEN orders.subject
    ELSE IF g = "object" THEN orders.object
    ELSE orders.statement

\* useOrders[g] of renderRelAttrFields
useOrders(attrs, prefill, orders, g) ==
    LET specG == splitSpecOrder(attrs, g)
        fromPrefill == Filter(Keys(prefill), LAMBDA n : classifyAttrName(n) = g)
    IN IF orders.has
       THEN Filter(OrderOf(orders, g), LAMBDA n : HasKey(attrs, n))
            \o Filter(specG, LAMBDA n : n \notin Range(OrderOf(orders, g)))
       ELSE IF Len(prefill) > 0
            THEN fromPrefill \o Filter(specG, LAMBDA n : n \notin Range(fromPrefill))
            ELSE specG

\* the option values an entity field of buildRelAttrRow lists for the annotations
entityCandidates(annos, aspec) ==
    LET ids == {annos[i].id :
                   i \in {j \in 1..Len(annos) : annos[j].class \in Range(aspec.classes)}}
        listed == Filter(annos, LAMBDA a : a.id \in ids)
    IN [i \in 1..Len(listed) |-> listed[i].id]

\* the rows renderRelAttrFields appends to the box of group g
fieldRows(annos, attrs, prefill, orders, g) ==
    Filter(useOrders(attrs, prefill, orders, g),
           LAMBDA n : /\ HasKey(attrs, n)
                      /\ ~(/\ g /= "statement"
                           /\ Get(attrs, n).kind = "entity"
                           /\ Len(entityCandidates(annos, Get(attrs, n))) = 0
                           /\ Get(attrs, n).nullable /= "false"))

\* select.value after value = String(val): the option if there is one, else ''
SelectValue(options, val) == IF val \in Range(options) THEN val ELSE ""

\* the value a field starts with: buildPredicateFixedRow for the fixed edge_predicate
\* row, buildRelAttrRow for the others
fieldValue(annos, aspec, val, fixed) ==
    LET none == val \in {Undef, Null}
        first(options) == IF Len(options) > 0 THEN options[1] ELSE ""
    IN IF aspec.kind = "enum"
       THEN IF ~Falsy(aspec.nullable) /\ aspec.nullable /= "false"
            THEN (IF Absent(val) THEN "" ELSE SelectValue(aspec.enum, val))
            ELSE (IF none THEN first(aspec.enum) ELSE SelectValue(aspec.enum, val))
       ELSE IF fixed THEN (IF none THEN "" ELSE val)
       ELSE IF aspec.kind = "number"
            THEN (IF none \/ ~ParsesAsNumber(val) \/ val = " " THEN "" ELSE val)
       ELSE IF aspec.kind = "entity"
            THEN LET cands == entityCandidates(annos, aspec)
                     options == (IF aspec.nullable = "true" THEN <<"">> ELSE <<>>) \o
                                (IF Len(cands) = 0 THEN <<"">> ELSE cands)
                 IN IF Absent(val)
                    THEN first(options)
                    ELSE SelectValue(options, val)
       ELSE IF none THEN "" ELSE val

\* renderRelAttrFields(relName, prefill, orders): the rows of the three boxes, whether
\* the edge_predicate row is drawn, and the value each field starts with
renderRelAttrFields(meta, annos, relName, prefill, orders) ==
    IF ~HasKey(meta, relName)
    THEN [subject |-> <<>>, object |-> <<>>, statement |-> <<>>, edge |-> FALSE,
          inputs |-> <<>>]
    ELSE LET attrs == Get(meta, relName).attributes
             subj == fieldRows(annos, attrs, prefill, orders, "subject")
             obj == fieldRows(annos, attrs, prefill, orders, "object")
             stmt == fieldRows(annos, attrs, prefill, orders, "statement")
             edge == HasKey(attrs, "edge_predicate")
             names == subj \o (IF edge THEN <<"edge_predicate">> ELSE <<>>) \o obj \o stmt
         IN [subject |-> subj, object |-> obj, statement |-> stmt, edge |-> edge,
             inputs |-> [i \in 1..Len(names) |->
                            [k |-> names[i],
                             v |-> fieldValue(annos, Get(attrs, names[i]),
                                              Get(prefill, names[i]),
                                              names[i] = "edge_predicate")]]]

\* the fields of the modal state that renderRelAttrFields redraws
WithFields(m, f) ==
    [m EXCEPT !.relFields = [subject |-> f.subject, object |-> f.object,
                             statement |-> f.statement, edge |-> f.edge],
              !.relInputs = f.inputs]

RelModalClosed(m) ==
    [m EXCEPT !.relation = FALSE, !.relId = Null, !.relOptions = <<>>, !.relValue = "",
              !.relFields = ModalClosed.relFields, !.relInputs = <<>>]

\* openRelationModal(relId): the relation button of row w
openRelationModal(w) ==
    /\ PageFree
    /\ w \in 1..Len(relRows)
    /\ relEditingId' = relRows[w].rel.id
    /\ LET i == FindIdx(relations, LAMBDA r : r.id = relRows[w].rel.id)
       IN IF i = 0
          THEN /\ UNCHANGED modal
               /\ UNCHANGED returned
          ELSE LET rel == relations[i]
                   allowed == getAllowedRelationNames(relationsMeta,
                                  classOf(annotations, rel.subject),
                                  classOf(annotations, rel.object))
                   value == IF ~Falsy(rel.predicate) /\ rel.predicate \in Range(allowed)
                            THEN rel.predicate
                            ELSE IF Len(allowed) > 0 THEN allowed[1] ELSE ""
               IN /\ modal' = WithFields(
                          [modal EXCEPT !.relation = TRUE, !.relId = rel.id,
                                        !.relOptions = allowed, !.relValue = value],
                          renderRelAttrFields(relationsMeta, annotations, value,
                                              rel.attrs, rel.attrOrder))
                  /\ UNCHANGED returned
    /\ UNCHANGED <<relationsMeta, current, cursor, selection, annotations, relations,
                   saved, dirty, dragging, uiMode, uiEditId, legend, relRows, addEnabled,
                   domSelected, domAnnotated, tasks, backend>>

\* the change handler of #sel-rel: the user picks another relation name
relSelectChange(name) ==
    /\ modal.relation
    /\ name \in Range(modal.relOptions)
    /\ name /= modal.relValue
    /\ modal' = WithFields([modal EXCEPT !.relValue = name],
                    renderRelAttrFields(relationsMeta, annotations, name, <<>>, NoOrder))
    /\ UNCHANGED returned
    /\ UNCHANGED <<relationsMeta, current, cursor, selection, annotations, relations,
                   saved, dirty, dragging, uiMode, uiEditId, relEditingId, legend,
                   relRows, addEnabled, domSelected, domAnnotated, tasks, backend>>

closeRelationModal ==
    /\ modal.relation
    /\ modal' = RelModalClosed(modal)
    /\ UNCHANGED returned
    /\ UNCHANGED <<relationsMeta, current, cursor, selection, annotations, relations,
                   saved, dirty, dragging, uiMode, uiEditId, relEditingId, legend,
                   relRows, addEnabled, domSelected, domAnnotated, tasks, backend>>

\* the click handler of #btn-rel-delete, bound to the relation the modal was opened on
relModalDelete ==
    /\ modal.relation
    /\ relations' = Filter(relations, LAMBDA r : r.id /= modal.relId)
    /\ relRows' = renderRelationships(annotations, relations')
    /\ modal' = RelModalClosed(modal)
    /\ UNCHANGED returned
    /\ UNCHANGED <<relationsMeta, current, cursor, selection, annotations, saved, dirty,
                   dragging, uiMode, uiEditId, relEditingId, legend, addEnabled,
                   domSelected, domAnnotated, tasks, backend>>

\* the endpoints confirmRelation leaves for predicate name
orientedEndpoints(meta, annos, rel, name) ==
    LET leftC == classOf(annos, rel.subject)
        rightC == classOf(annos, rel.object)
        stay == [subject |-> rel.subject, object |-> rel.object]
    IN IF leftC /= Null /\ rightC /= Null
       THEN IF relationOrientationForPair(meta, name, leftC, rightC) = "reverse"
            THEN [subject |-> rel.object, object |-> rel.subject] ELSE stay
       ELSE IF leftC /= Null /\ rightC = Null
            THEN IF firstEntityRoleFor(meta, name, leftC) = "object"
                 THEN [subject |-> Null, object |-> rel.subject] ELSE stay
       ELSE IF leftC = Null /\ rightC /= Null
            THEN IF firstEntityRoleFor(meta, name, rightC) = "subject"
                 THEN [subject |-> rel.object, object |-> Null] ELSE stay
       ELSE stay

RECURSIVE pushRows(_, _, _, _, _)
\* pushRows(rows) from row k on, added to out
pushRows(attrs, inputs, rows, k, out) ==
    IF k > Len(rows) THEN out
    ELSE IF ~HasKey(attrs, rows[k]) \/ ~HasKey(inputs, rows[k])
         THEN pushRows(attrs, inputs, rows, k + 1, out)
         ELSE LET aspec == Get(attrs, rows[k])
                  raw == Get(inputs, rows[k])
                  val == IF raw = "" /\ aspec.nullable = "true" THEN Null
                         ELSE IF aspec.kind = "number"
                              THEN (IF raw = "" THEN Null ELSE NumberOf(raw))
                         ELSE raw
              IN pushRows(attrs, inputs, rows, k + 1, Put(out, rows[k], val))

\* the attrs object confirmRelation builds from the fields of the modal
confirmedAttrs(meta, name, fields, inputs) ==
    LET attrs == IF HasKey(meta, name) THEN Get(meta, name).attributes ELSE <<>>
        s == pushRows(attrs, inputs, fields.subject, 1, <<>>)
        e == IF HasKey(attrs, "edge_predicate") /\ HasKey(inputs, "edge_predicate")
             THEN Put(s, "edge_predicate",
                      IF Get(inputs, "edge_predicate") = "" THEN Null
                      ELSE Get(inputs, "edge_predicate"))
             ELSE s
        o == pushRows(attrs, inputs, fields.object, 1, e)
    IN pushRows(attrs, inputs, fields.statement, 1, o)

\* confirmRelation(): #btn-rel-confirm
confirmRelation ==
    /\ modal.relation
    /\ LET i == FindIdx(relations, LAMBDA r : r.id = relEditingId)
       IN IF i = 0
          THEN /\ UNCHANGED <<relations, relRows, modal>>
               /\ UNCHANGED returned
          ELSE LET name == modal.relValue
                   ends == orientedEndpoints(relationsMeta, annotations, relations[i], name)
               IN /\ relations' = [relations EXCEPT ![i] =
                         [id |-> relations[i].id,
                          predicate |-> name,
                          subject |-> ends.subject,
                          object |-> ends.object,
                          attrs |-> confirmedAttrs(relationsMeta, name, modal.relFields,
                                                   modal.relInputs),
                          attrOrder |-> [has |-> TRUE,
                                         subject |-> modal.relFields.subject,
                                         object |-> modal.relFields.object,
                                         statement |-> modal.relFields.statement]]]
                  /\ relRows' = renderRelationships(annotations, relations')
                  /\ modal' = RelModalClosed(modal)
                  /\ UNCHANGED returned
    /\ UNCHANGED <<relationsMeta, current, cursor, selection, annotations, saved, dirty,
                   dragging, uiMode, uiEditId, relEditingId, legend, addEnabled,
                   domSelected, domAnnotated, tasks, backend>>

-----------------------------------------------------------------------------
(* Session: main.js *)

\* buildAnnotationPayload()
buildAnnotationPayload(cur, annos, rels) ==
    [text_id |-> cur.id,
     text |-> cur.text,
     entities |-> [i \in 1..Len(annos) |->
                      [id |-> annos[i].id, class |-> annos[i].class,
                       label |-> annos[i].label,
                       span |-> [start |-> annos[i].span.start, end |-> annos[i].span.end],
                       attributes |-> annos[i].attrs]],
     relations |-> [i \in 1..Len(rels) |->
                      [id |-> rels[i].id,
                       predicate |-> IF Falsy(rels[i].predicate) THEN "" ELSE rels[i].predicate,
                       subject |-> rels[i].subject,
                       object |-> rels[i].object,
                       attributes |-> rels[i].attrs]]]

\* the annos array loadTextResponse builds from saved.entities
hydrateEntities(toks, ents) ==
    LET kept == Filter(ents, LAMBDA e : spanToTokenRange(toks, e.span) /= <<NoIdx, NoIdx>>)
    IN [i \in 1..Len(kept) |->
           [id |-> kept[i].id, class |-> kept[i].class, label |-> kept[i].label,
            attrs |-> kept[i].attributes,
            span |-> [start |-> kept[i].span.start, end |-> kept[i].span.end],
            tokenRange |-> spanToTokenRange(toks, kept[i].span)]]

\* a loadTextResponse that lists edge_predicate among the statement attributes
hydrateRelationsListingEdge(annos, rels) ==
    LET ids == {annos[i].id : i \in 1..Len(annos)}
        kept == Filter(rels, LAMBDA r : r.subject \in ids /\ r.object \in ids)
        order(r, g) == Filter(Keys(r.attributes), LAMBDA k : classifyAttrName(k) = g)
    IN [i \in 1..Len(kept) |->
           [id |-> kept[i].id,
            predicate |-> IF Falsy(kept[i].predicate) THEN Null ELSE kept[i].predicate,
            subject |-> kept[i].subject,
            object |-> kept[i].object,
            attrs |-> kept[i].attributes,
            attrOrder |-> [has |-> TRUE,
                           subject |-> order(kept[i], "subject"),
                           object |-> order(kept[i], "object"),
                           statement |-> order(kept[i], "statement")
                                         \o order(kept[i], "predicate")]]]

\* the relations loadTextResponse pushes from saved.relations
hydrateRelations(annos, rels) ==
    LET ids == {annos[i].id : i \in 1..Len(annos)}
        kept == Filter(rels, LAMBDA r : r.subject \in ids /\ r.object \in ids)
        order(r, g) == Filter(Keys(r.attributes), LAMBDA k : classifyAttrName(k) = g)
    IN [i \in 1..Len(kept) |->
           [id |-> kept[i].id,
            predicate |-> IF Falsy(kept[i].predicate) THEN Null ELSE kept[i].predicate,
            subject |-> kept[i].subject,
            object |-> kept[i].object,
            attrs |-> kept[i].attributes,
            attrOrder |-> [has |-> TRUE,
                           subject |-> order(kept[i], "subject"),
                           object |-> order(kept[i], "object"),
                           statement |-> order(kept[i], "statement")]]]

\* a handler that asks for the text it is on instead of the next one
TaskWithoutAdvance(pc, origin, arg, payload, overwrite) ==
    [pc |-> pc, origin |-> origin,
     arg |-> IF pc = "getText" /\ origin /= "prev" THEN arg - 1 ELSE arg,
     payload |-> payload, overwrite |-> overwrite]

\* a suspended async handler: the request it waits for and what its closure holds
Task(pc, origin, arg, payload, overwrite) ==
    [pc |-> pc, origin |-> origin, arg |-> arg, payload |-> payload,
     overwrite |-> overwrite]

\* the tasks left when task t ends
RemoveAt(s, t) == [i \in 1..(Len(s) - 1) |-> IF i < t THEN s[i] ELSE s[i + 1]]

\* the outcomes of a request: answered by the service, or failed
Outcomes == {"ok", "fail"}

\* #btn-prev, with fewer than cap handlers suspended
prevClick(cap) ==
    /\ PageFree
    /\ Len(tasks) < cap
    /\ tasks' = Append(tasks, Task("getText", "prev", Max(0, cursor - 1), NoPayload, FALSE))
    /\ UNCHANGED returned
    /\ UNCHANGED <<relationsMeta, current, cursor, selection, annotations, relations,
                   saved, dirty, dragging, uiMode, uiEditId, relEditingId, modal, legend,
                   relRows, addEnabled, domSelected, domAnnotated, backend>>

\* a save handler that never skips
shouldSkipNever(sv, d) == FALSE

\* shouldSkip of the save handler
shouldSkip(sv, d) == sv.exists /\ ~d

\* #btn-save, up to its first await or its return
saveClick(cap) ==
    /\ PageFree
    /\ Len(tasks) < cap
    /\ LET v == validateRelations(relationsMeta, annotations, relations)
       IN IF shouldSkip(saved, dirty)
          THEN /\ tasks' = Append(tasks, Task("getText", "skip", cursor + 1, NoPayload, FALSE))
               /\ UNCHANGED returned
               /\ UNCHANGED relRows
          ELSE IF ~v.ok
          THEN /\ relRows' = highlightRows(relRows, relations, v.reasons, 1)
               /\ UNCHANGED returned
               /\ UNCHANGED tasks
          ELSE /\ tasks' = Append(tasks,
                      Task("exists", "save", current.id,
                           buildAnnotationPayload(current, annotations, relations), FALSE))
               /\ UNCHANGED returned
               /\ UNCHANGED relRows
    /\ UNCHANGED <<relationsMeta, current, cursor, selection, annotations, relations,
                   saved, dirty, dragging, uiMode, uiEditId, relEditingId, modal, legend,
                   addEnabled, domSelected, domAnnotated, backend>>

\* the answer to getNextText / getPrevText of task t: on success loadTextResponse runs
\* up to its await of getAnnotation
RespText(t, outcome) ==
    /\ t \in 1..Len(tasks)
    /\ tasks[t].pc = "getText"
    /\ outcome = "ok" => tasks[t].arg \in DocIds
    /\ IF outcome = "ok"
       THEN LET data == TextAt(tasks[t].arg)
            IN /\ current' = [id |-> data.id, text |-> data.text]
               /\ cursor' = data.cursor
               /\ annotations' = <<>>
               /\ selection' = NoSelection
               /\ addEnabled' = FALSE
               /\ saved' = [exists |-> FALSE, wasEmpty |-> FALSE]
               /\ domSelected' = {}
               /\ domAnnotated' = {}
               /\ tasks' = [tasks EXCEPT ![t] =
                               Task("loadAnn", tasks[t].origin, data.id, NoPayload, FALSE)]
               /\ UNCHANGED returned
       ELSE /\ tasks' = RemoveAt(tasks, t)
            /\ UNCHANGED returned
            /\ UNCHANGED <<current, cursor, annotations, selection, addEnabled, saved,
                           domSelected, domAnnotated>>
    /\ UNCHANGED <<relationsMeta, relations, dirty, dragging, uiMode, uiEditId,
                   relEditingId, modal, legend, relRows, backend>>

\* the answer to the getAnnotation of loadTextResponse in task t, and the rest of
\* loadTextResponse
RespAnnotation(t, outcome) ==
    /\ t \in 1..Len(tasks)
    /\ tasks[t].pc = "loadAnn"
    /\ outcome \in Outcomes
    /\ LET rec == backend[tasks[t].arg]
           annos == hydrateEntities(tokens, rec.entities)
       IN /\ IF outcome = "ok" /\ rec.exists
             THEN /\ saved' = [exists |-> TRUE, wasEmpty |-> Len(rec.entities) = 0]
                  /\ annotations' = annos
                  /\ domAnnotated' = applyAnnotationHighlights(tokens, annos)
                  /\ domSelected' = {}
                  /\ relations' = hydrateRelations(annos, rec.relations)
             ELSE IF outcome = "ok"
             THEN /\ relations' = <<>>
                  /\ UNCHANGED <<saved, annotations, domAnnotated, domSelected>>
             ELSE UNCHANGED <<saved, annotations, domAnnotated, domSelected, relations>>
          /\ legend' = renderLegend(annotations')
          /\ relRows' = renderRelationships(annotations', relations')
          /\ dirty' = FALSE
          /\ tasks' = RemoveAt(tasks, t)
          /\ UNCHANGED returned
    /\ UNCHANGED <<relationsMeta, current, cursor, selection, dragging, uiMode, uiEditId,
                   relEditingId, modal, addEnabled, backend>>

\* a save handler that never asks
needsConfirmNever(existing) == FALSE

\* existing && Array.isArray(existing.entities) && existing.entities.length > 0
needsConfirm(existing) == existing.exists /\ Len(existing.entities) > 0

\* the answer to the getAnnotation of the save handler in task t: the overwrite
\* modal, or proceedSave(!!existing) up to its await of saveAnnotations
RespExists(t, outcome) ==
    /\ t \in 1..Len(tasks)
    /\ tasks[t].pc = "exists"
    /\ outcome \in Outcomes
    /\ LET existing == backend[tasks[t].arg]
       IN IF outcome = "fail"
          THEN /\ tasks' = RemoveAt(tasks, t)
               /\ UNCHANGED returned
               /\ UNCHANGED modal
          ELSE IF needsConfirm(existing)
          THEN /\ modal' = [modal EXCEPT !.overwrite = TRUE, !.ovPayload = tasks[t].payload]
               /\ tasks' = RemoveAt(tasks, t)
               /\ UNCHANGED returned
          ELSE /\ tasks' = [tasks EXCEPT ![t] =
                               Task("write", "save", tasks[t].arg, tasks[t].payload,
                                    existing.exists)]
               /\ UNCHANGED returned
               /\ UNCHANGED modal
    /\ UNCHANGED <<relationsMeta, current, cursor, selection, annotations, relations,
                   saved, dirty, dragging, uiMode, uiEditId, relEditingId, legend, relRows,
                   addEnabled, domSelected, domAnnotated, backend>>

\* #btn-overwrite-confirm: cleanup() and proceedSave(true) up to its await
overwriteConfirm(cap) ==
    /\ modal.overwrite
    /\ Len(tasks) < cap
    /\ modal' = [modal EXCEPT !.overwrite = FALSE, !.ovPayload = NoPayload]
    /\ tasks' = Append(tasks, Task("write", "confirm", modal.ovPayload.text_id,
                                   modal.ovPayload, TRUE))
    /\ UNCHANGED returned
    /\ UNCHANGED <<relationsMeta, current, cursor, selection, annotations, relations,
                   saved, dirty, dragging, uiMode, uiEditId, relEditingId, legend, relRows,
                   addEnabled, domSelected, domAnnotated, backend>>

\* #btn-overwrite-cancel
overwriteCancel ==
    /\ modal.overwrite
    /\ modal' = [modal EXCEPT !.overwrite = FALSE, !.ovPayload = NoPayload]
    /\ UNCHANGED returned
    /\ UNCHANGED <<relationsMeta, current, cursor, selection, annotations, relations,
                   saved, dirty, dragging, uiMode, uiEditId, relEditingId, legend, relRows,
                   addEnabled, domSelected, domAnnotated, tasks, backend>>

\* the answer to the saveAnnotations of task t, and proceedSave up to its await of
\* getNextText
RespWrite(t, outcome) ==
    /\ t \in 1..Len(tasks)
    /\ tasks[t].pc = "write"
    /\ outcome \in Outcomes
    /\ IF outcome = "ok"
       THEN /\ backend' = [backend EXCEPT ![tasks[t].arg] = Stored(tasks[t].payload)]
            /\ dirty' = FALSE
            /\ tasks' = [tasks EXCEPT ![t] =
                            Task("getText", tasks[t].origin, cursor + 1, NoPayload, FALSE)]
            /\ UNCHANGED returned
       ELSE /\ tasks' = RemoveAt(tasks, t)
            /\ UNCHANGED returned
            /\ UNCHANGED <<backend, dirty>>
    /\ UNCHANGED <<relationsMeta, current, cursor, selection, annotations, relations,
                   saved, dragging, uiMode, uiEditId, relEditingId, modal, legend, relRows,
                   addEnabled, domSelected, domAnnotated>>

-----------------------------------------------------------------------------
(* The annotation session *)

\* GET /relations for the session: works_for(Person -> Org), knows(Person -> Person)
SessionMeta ==
    << [k |-> "works_for", v |-> RelSpec({"Person"}, {"Org"}, <<>>)],
       [k |-> "knows", v |-> RelSpec({"Person"}, {"Person"}, <<>>)] >>

\* records an earlier session left in the store
EmptyRecord == [exists |-> TRUE, entities |-> <<>>, relations |-> <<>>]

SavedDoc0 ==
    [exists |-> TRUE,
     entities |-> << [id |-> "T1", class |-> "Person", label |-> <<"a", "b">>,
                      span |-> [start |-> 0, end |-> 2], attributes |-> <<>>],
                     [id |-> "T2", class |-> "Org", label |-> <<"c">>,
                      span |-> [start |-> 3, end |-> 4],
                      attributes |-> <<[k |-> "size", v |-> Null]>>] >>,
     relations |-> << [id |-> "R1", predicate |-> "works_for", subject |-> "T1",
                       object |-> "T2", attributes |-> <<>>] >>]

SavedDoc1 ==
    [exists |-> TRUE,
     entities |-> << [id |-> "T1", class |-> "Org", label |-> <<"c">>,
                      span |-> [start |-> 0, end |-> 1],
                      attributes |-> <<[k |-> "size", v |-> Null]>>] >>,
     relations |-> <<>>]

\* the stores a session can start on
Stores ==
    {[c \in DocIds |-> IF c = 0 THEN r0 ELSE r1] :
        r0 \in {NoRecord, EmptyRecord, SavedDoc0}, r1 \in {NoRecord, SavedDoc1}}

\* the stores of the sessions that stay on the first document
FirstDocStores ==
    {[c \in DocIds |-> IF c = 0 THEN r0 ELSE NoRecord] : r0 \in {NoRecord, SavedDoc0}}

\* ids a legend chip can carry in the model
EntIds == {"T1", "T2", "T3"}

\* what the user types in the label field and in an attribute field
Labels == {<<>>, <<"x">>}
Raws == {"", "7"}

\* the same for an annotator who names every entity x and fills in no attribute
TypedLabels == {<<"x">>}
BlankRaws == {""}

\* the state when loadTextResponse has finished on the text at cursor c with nothing
\* else under way: the text is drawn and its saved record, if the store holds one, is
\* hydrated
Loaded(stores, c) ==
    /\ relationsMeta = SessionMeta
    /\ backend \in stores
    /\ current = [id |-> TextAt(c).id, text |-> TextAt(c).text]
    /\ cursor = c
    /\ selection = NoSelection
    /\ annotations = hydrateEntities(tokenizeWithOffsets(TextAt(c).text), backend[c].entities)
    /\ relations = hydrateRelations(annotations, backend[c].relations)
    /\ saved = [exists |-> backend[c].exists,
                wasEmpty |-> backend[c].exists /\ Len(backend[c].entities) = 0]
    /\ dirty = FALSE
    /\ dragging = FALSE
    /\ uiMode = "create"
    /\ uiEditId = Null
    /\ relEditingId = Null
    /\ modal = ModalClosed
    /\ legend = renderLegend(annotations)
    /\ relRows = renderRelationships(annotations, relations)
    /\ addEnabled = FALSE
    /\ domSelected = {}
    /\ domAnnotated = applyAnnotationHighlights(tokenizeWithOffsets(TextAt(c).text), annotations)
    /\ tasks = <<>>
    /\ returned = NoResult

\* the state when boot() has finished: the first text is loaded
Boot(stores) == Loaded(stores, 0)

Init == Boot(Stores)

\* the relation area: drops, row buttons and the relation editor
RelationEditing ==
    \/ \E id \in EntIds \cap legend : relsDrop(MaxRels, id)
    \/ \E w \in 1..MaxRels, side \in {"subject", "object"}, id \in EntIds :
           placeholderDrop(w, side, id)
    \/ \E w \in 1..MaxRels : relRowRemove(w)
    \/ \E w \in 1..MaxRels : openRelationModal(w)
    \/ \E name \in {"works_for", "knows"} : relSelectChange(name)
    \/ closeRelationModal
    \/ relModalDelete
    \/ confirmRelation

\* navigation and save, with the answers of the service
Navigation ==
    \/ prevClick(MaxTasks)
    \/ saveClick(MaxTasks)
    \/ \E t \in 1..MaxTasks, o \in Outcomes : RespText(t, o)
    \/ \E t \in 1..MaxTasks, o \in Outcomes : RespAnnotation(t, o)
    \/ \E t \in 1..MaxTasks, o \in Outcomes : RespExists(t, o)
    \/ overwriteConfirm(MaxTasks)
    \/ overwriteCancel
    \/ \E t \in 1..MaxTasks, o \in Outcomes : RespWrite(t, o)

\* a session on saved documents: the annotator removes entities, edits relations,
\* navigates and saves
NextSession ==
    \/ \E id \in EntIds : openEntityModal("edit", id)
    \/ closeEntityModal
    \/ deleteAnnotation
    \/ deleteAllClick
    \/ deleteAllConfirm
    \/ deleteAllCancel
    \/ RelationEditing
    \/ Navigation

SpecSession == Init /\ [][NextSession]_vars
\* the text pane and the entity modal
EntityEditing(labels, raws) ==
    \/ \E idx \in 0..3 : onMouseDown(idx)
    \/ \E idx \in 0..3 : onMouseMove(idx)
    \/ onMouseUp
    \/ clearSelection
    \/ openEntityModal("create", Null)
    \/ \E id \in EntIds : openEntityModal("edit", id)
    \/ closeEntityModal
    \/ \E klass \in ClassNames, l \in labels, raw \in raws : confirmSaveAnnotation(klass, l, raw)
    \/ deleteAnnotation
    \/ deleteAllClick
    \/ deleteAllConfirm
    \/ deleteAllCancel

\* annotating the first document: entities are made, edited and removed
NextEntities == EntityEditing(TypedLabels, BlankRaws)

SpecEntities == Boot(FirstDocStores) /\ [][NextEntities]_vars
-----------------------------------------------------------------------------
(* Deleting entities under relations *)

\* most relations of a document drawn for the cascade
MaxCascadeRels == 3

\* three entities made on the first document, named x
CascadeEntities ==
    << [id |-> "T1", class |-> "Person", label |-> <<"x">>, attrs |-> <<>>,
        span |-> [start |-> 0, end |-> 2], tokenRange |-> <<0, 0>>],
       [id |-> "T2", class |-> "Org", label |-> <<"x">>,
        attrs |-> <<[k |-> "size", v |-> Null]>>,
        span |-> [start |-> 3, end |-> 4], tokenRange |-> <<2, 2>>],
       [id |-> "T3", class |-> "Person", label |-> <<"x">>, attrs |-> <<>>,
        span |-> [start |-> 0, end |-> 4], tokenRange |-> <<0, 2>>] >>

\* the relations that drops on the relation area and on the object placeholders make:
\* relation i has id Ri, a subject, and an object that is another entity or none
CascadeRelations ==
    UNION {[1..n -> {e \in [subject : EntIds, object : EntIds \cup {Null}] :
                        e.subject /= e.object}] :
           n \in 0..MaxCascadeRels}

\* an unsaved document with the three entities and drawn relations
CascadeInit ==
    /\ relationsMeta = SessionMeta
    /\ backend = [c \in DocIds |-> NoRecord]
    /\ current = [id |-> TextAt(0).id, text |-> TextAt(0).text]
    /\ cursor = 0
    /\ selection = NoSelection
    /\ annotations = CascadeEntities
    /\ \E ends \in CascadeRelations :
           relations = [i \in 1..Len(ends) |->
                           [id |-> "R" \o ToString(i), predicate |-> Null,
                            subject |-> ends[i].subject, object |-> ends[i].object,
                            attrs |-> <<>>, attrOrder |-> NoOrder]]
    /\ saved = [exists |-> FALSE, wasEmpty |-> FALSE]
    /\ dirty = TRUE
    /\ dragging = FALSE
    /\ uiMode = "create"
    /\ uiEditId = Null
    /\ relEditingId = Null
    /\ modal = ModalClosed
    /\ legend = renderLegend(annotations)
    /\ relRows = renderRelationships(annotations, relations)
    /\ addEnabled = FALSE
    /\ domSelected = {}
    /\ domAnnotated = applyAnnotationHighlights(tokens, annotations)
    /\ tasks = <<>>
    /\ returned = NoResult

NextCascade ==
    \/ \E id \in EntIds : openEntityModal("edit", id)
    \/ closeEntityModal
    \/ deleteAnnotation

SpecCascade == CascadeInit /\ [][NextCascade]_vars

\* the positions of the relations that reference id on neither side
Unreferencing(rels, id) == {i \in 1..Len(rels) : rels[i].subject /= id /\ rels[i].object /= id}

\* the j-th smallest position of a set of positions
NthOf(S, j) == CHOOSE i \in S : Cardinality({k \in S : k <= i}) = j

\* C1: deleting entity id leaves no relation with subject or object id, and leaves
\* the relations that reference id on neither side, each unchanged, in their order
C1_DeleteCascades ==
    [][deleteAnnotation =>
          LET id == uiEditId
              kept == Unreferencing(relations, id)
          IN /\ \A i \in 1..Len(relations') :
                    relations'[i].subject /= id /\ relations'[i].object /= id
             /\ Len(relations') = Cardinality(kept)
             /\ \A j \in 1..Len(relations') : relations'[j] = relations[NthOf(kept, j)]]_vars

\* a deletion has removed a relation (its row is left without one) and kept two
C1_Witness ==
    /\ \E w \in 1..Len(relRows) : relRows[w].live = 0
    /\ Len(relations) >= 2
    /\ Len(annotations) < Len(CascadeEntities)
-----------------------------------------------------------------------------
(* The relation validator on drawn documents *)

\* a schema with every kind of attribute: works_for(Person -> Org) with an enum that
\* is required, a nullable number, an entity and a text; employs(Org -> Person)
ValidateMeta ==
    << [k |-> "works_for",
        v |-> RelSpec({"Person"}, {"Org"},
                      << AttrSpec("role", "enum", "false", <<"ceo", "dev">>, <<>>),
                         AttrSpec("since", "number", "true", <<>>, <<>>),
                         AttrSpec("via", "entity", Undef, <<>>, <<"Org">>),
                         AttrSpec("note", "text", Undef, <<>>, <<>>) >>)],
       [k |-> "employs", v |-> RelSpec({"Org"}, {"Person"}, <<>>)] >>

\* the entities of the drawn documents: with ids of their own, and with the id T2
\* given twice (a Person before an Org)
ValidateEntities ==
    { << CascadeEntities[1], CascadeEntities[2] >>,
      << CascadeEntities[1], [CascadeEntities[3] EXCEPT !.id = "T2"], CascadeEntities[2] >> }

\* the attrs object with the drawn values, a key left out where the value is undefined
AttrsOf(role, since, via, note) ==
    Filter(<< [k |-> "role", v |-> role], [k |-> "since", v |-> since],
              [k |-> "via", v |-> via], [k |-> "note", v |-> note] >>,
           LAMBDA e : e.v /= Undef)

\* the relations drawn: every mix of endpoints, predicate and attribute values
DrawnRelations ==
    {[id |-> "R1", predicate |-> p, subject |-> sb, object |-> ob,
      attrs |-> AttrsOf(role, since, via, note), attrOrder |-> NoOrder] :
        p \in {Null, " ", "works_for", "employs", "nope"},
        sb \in {Null, "T1", "T2", "T9"},
        ob \in {Null, "T1", "T2", "T9"},
        role \in {Undef, "", "ceo", "boss"},
        since \in {Undef, Null, "7", "x"},
        via \in {Undef, "T2", "T1", "T9"},
        note \in {Undef, "hi"}}

\* a few relations to draw a second relation from
SecondRelations ==
    {[id |-> "R2", predicate |-> p, subject |-> "T1", object |-> ob,
      attrs |-> AttrsOf(role, Undef, Undef, Undef), attrOrder |-> NoOrder] :
        p \in {"works_for", "nope"}, ob \in {Null, "T2"}, role \in {Undef, "ceo"}}

\* a drawn document on the first text, edited and not saved since, over a store
DrawnDocument(stores) ==
    /\ relationsMeta = ValidateMeta
    /\ backend \in stores
    /\ current = [id |-> TextAt(0).id, text |-> TextAt(0).text]
    /\ cursor = 0
    /\ selection = NoSelection
    /\ annotations \in ValidateEntities
    /\ \/ relations = <<>>
       \/ \E r \in DrawnRelations : relations = <<r>>
       \/ \E r \in SecondRelations, q \in SecondRelations :
              relations = <<[r EXCEPT !.id = "R1"], q>>
    /\ saved = [exists |-> backend[0].exists,
                wasEmpty |-> backend[0].exists /\ Len(backend[0].entities) = 0]
    /\ dirty = TRUE
    /\ dragging = FALSE
    /\ uiMode = "create"
    /\ uiEditId = Null
    /\ relEditingId = Null
    /\ modal = ModalClosed
    /\ legend = renderLegend(annotations)
    /\ relRows = renderRelationships(annotations, relations)
    /\ addEnabled = FALSE
    /\ domSelected = {}
    /\ domAnnotated = applyAnnotationHighlights(tokens, annotations)
    /\ tasks = <<>>
    /\ returned = NoResult

ValidateInit == DrawnDocument({[c \in DocIds |-> NoRecord]})

\* validateRelations() is called once
Validate ==
    /\ ~returned.done
    /\ LET v == validateRelations(relationsMeta, annotations, relations)
       IN /\ returned' = [done |-> TRUE, ok |-> v.ok, reasons |-> v.reasons, calls |-> 1]
          /\ relRows' = highlightRows(relRows, relations, v.reasons, 1)
    /\ UNCHANGED <<relationsMeta, current, cursor, selection, annotations, relations,
                   saved, dirty, dragging, uiMode, uiEditId, relEditingId, modal, legend,
                   addEnabled, domSelected, domAnnotated, tasks, backend>>

\* validateRelations() is called a second time, nothing else having run in between
Revalidate ==
    /\ returned.calls = 1
    /\ LET v == validateRelations(relationsMeta, annotations, relations)
       IN /\ returned' = [done |-> TRUE, ok |-> v.ok, reasons |-> v.reasons, calls |-> 2]
          /\ relRows' = highlightRows(relRows, relations, v.reasons, 1)
    /\ UNCHANGED <<relationsMeta, current, cursor, selection, annotations, relations,
                   saved, dirty, dragging, uiMode, uiEditId, relEditingId, modal, legend,
                   addEnabled, domSelected, domAnnotated, tasks, backend>>

NextValidate ==
    \/ Validate
    \/ Revalidate

SpecValidate == ValidateInit /\ [][NextValidate]_vars

\* id is the id of an entity
Resolves(annos, id) == \E i \in 1..Len(annos) : annos[i].id = id

\* the class of the entity that id resolves to: the first one with that id
ResolvedClass(annos, id) ==
    annos[CHOOSE i \in 1..Len(annos) :
              annos[i].id = id /\ \A j \in 1..(i - 1) : annos[j].id /= id].class

\* an attribute is absent, null or empty and not required, or it is present and, where
\* its kind has a check, passes it
AttributeValid(annos, r, aspec) ==
    LET v == Get(r.attrs, aspec.name)
    IN \/ v \in {Undef, Null, ""} /\ aspec.nullable /= "false"
       \/ /\ v \notin {Undef, Null, ""}
          /\ aspec.kind = "enum" => v \in Range(aspec.enum)
          /\ aspec.kind = "number" => ParsesAsNumber(v)
          /\ aspec.kind = "entity" =>
                 Resolves(annos, v) /\ ResolvedClass(annos, v) \in Range(aspec.classes)

RelationValid(meta, annos, r) ==
    /\ r.subject \notin {Null, ""}
    /\ r.object \notin {Null, ""}
    /\ r.predicate \notin {Null, "", " "}
    /\ HasKey(meta, r.predicate)
    /\ Resolves(annos, r.subject)
    /\ Resolves(annos, r.object)
    /\ LET spec == Get(meta, r.predicate)
           sc == ResolvedClass(annos, r.subject)
           oc == ResolvedClass(annos, r.object)
       IN /\ \/ sc \in spec.subject /\ oc \in spec.object
             \/ oc \in spec.subject /\ sc \in spec.object
          /\ \A k \in 1..Len(spec.attributes) :
                 AttributeValid(annos, r, spec.attributes[k].v)

\* C9: validateRelations returns true exactly when every relation has subject, object
\* and a non-empty predicate, the predicate is in the schema, the endpoints are
\* entities whose classes fit the predicate forward or reversed, and every attribute
\* of the spec is absent/null/empty and not required, or present and passing the check
\* of its kind (enum in the allowed set, number parses, entity of an allowed class);
\* with no relations it returns true
C9_ValidExactly ==
    returned.done =>
        (returned.ok <=>
            \A i \in 1..Len(relations) :
                RelationValid(relationsMeta, annotations, relations[i]))

\* the validator has accepted a relation that carries an entity, an enum and a number
C9_Witness ==
    /\ returned.done
    /\ returned.ok
    /\ Len(relations) = 1
    /\ Get(relations[1].attrs, "via") = "T2"
    /\ Get(relations[1].attrs, "role") = "ceo"
    /\ Get(relations[1].attrs, "since") = "7"

\* C11: a second call of validateRelations, with no change of the model in between,
\* returns the verdict and the reasons of the first, leaves on every row the message
\* the first call left, and leaves the entities, the relations and the dirty flag alone
C11_ValidationIdempotent ==
    [][Revalidate =>
          /\ returned'.ok = returned.ok
          /\ returned'.reasons = returned.reasons
          /\ relRows' = relRows
          /\ UNCHANGED <<annotations, relations, dirty>>]_vars

\* the validator has run twice on two relations that fail for different reasons
C11_Witness ==
    /\ returned.calls = 2
    /\ ~returned.ok
    /\ Len(relations) = 2
    /\ returned.reasons[1] = MsgUnknown
    /\ returned.reasons[2] = MsgIncomplete
    /\ relRows[1].err = MsgUnknown

\* C10: a relation with object == null fails validation with the incomplete reason,
\* whatever its subject, predicate and attributes are
C10_NoObjectIsIncomplete ==
    returned.done =>
        \A i \in 1..Len(relations) :
            relations[i].object = Null =>
                /\ ~returned.ok
                /\ returned.reasons[i] = MsgIncomplete
                /\ relRows[i].err = MsgIncomplete

\* the validator has run on a relation without object whose predicate is unknown, whose
\* subject is no entity and whose attributes are not those of any spec
C10_Witness ==
    /\ returned.done
    /\ Len(relations) = 1
    /\ relations[1].object = Null
    /\ relations[1].predicate = "nope"
    /\ relations[1].subject = "T9"
    /\ Get(relations[1].attrs, "role") = "boss"
-----------------------------------------------------------------------------
(* The session: integrity, ids, dirty flag, save and load *)

\* C2: when no request is in flight, every relation's non-null subject and non-null
\* object is the id of an entity in the entity collection
C2_ReferentialIntegrity ==
    tasks = <<>> =>
        \A i \in 1..Len(relations) :
            /\ relations[i].subject /= Null => Resolves(annotations, relations[i].subject)
            /\ relations[i].object /= Null => Resolves(annotations, relations[i].object)

\* C3: no two entities in the collection have the same id
C3_EntityIdsUnique ==
    \A i, j \in 1..Len(annotations) :
        i /= j => annotations[i].id /= annotations[j].id

\* a handler that edits the entity or the relation collection has run
EditStep ==
    \/ \E klass \in ClassNames, l \in Labels, raw \in Raws : confirmSaveAnnotation(klass, l, raw)
    \/ deleteAnnotation
    \/ deleteAllConfirm
    \/ \E id \in EntIds \cap legend : relsDrop(MaxRels, id)
    \/ \E w \in 1..MaxRels, side \in {"subject", "object"}, id \in EntIds :
           placeholderDrop(w, side, id)
    \/ confirmRelation
    \/ \E w \in 1..MaxRels : relRowRemove(w)
    \/ relModalDelete

\* C4: after every edit that changes the entity or the relation collection (create,
\* edit, delete entity, delete-all, create relation, set endpoint, confirm predicate,
\* delete relation) the dirty flag is true
C4_MutationsSetDirty ==
    [][(EditStep /\ (annotations' /= annotations \/ relations' /= relations)) => dirty']_vars

\* C5: a save on a document with a saved record and no edit since the load requests
\* the text at cursor + 1 and nothing else, and the handler that skipped never checks
\* for a record or writes one
C5_SaveSkips ==
    /\ [][(saveClick(MaxTasks) /\ saved.exists /\ ~dirty) =>
              /\ Len(tasks') = Len(tasks) + 1
              /\ \A t \in 1..Len(tasks) : tasks'[t] = tasks[t]
              /\ tasks'[Len(tasks')].pc = "getText"
              /\ tasks'[Len(tasks')].arg = cursor + 1
              /\ backend' = backend]_vars
    /\ [](\A t \in 1..Len(tasks) :
             tasks[t].origin = "skip" => tasks[t].pc \in {"getText", "loadAnn"})

\* a save was skipped on a clean document with entities: its request for the next
\* text is in flight
C5_Witness ==
    /\ saved.exists
    /\ ~dirty
    /\ Len(annotations) > 0
    /\ \E t \in 1..Len(tasks) :
           tasks[t].origin = "skip" /\ tasks[t].pc = "getText" /\ tasks[t].arg = cursor + 1

\* the write requests in flight for document d
Writes(ts, d) == {t \in 1..Len(ts) : ts[t].pc = "write" /\ ts[t].arg = d}

\* C6: a write request for a document whose record holds an entity is issued only by
\* the confirm button of the overwrite modal, for the payload the modal was opened on;
\* the cancel button issues no request and leaves the document and the model as they are
C6_OverwriteNeedsConfirm ==
    /\ [][\A d \in DocIds :
              (/\ Cardinality(Writes(tasks', d)) > Cardinality(Writes(tasks, d))
               /\ backend[d].exists
               /\ Len(backend[d].entities) > 0)
              => /\ modal.overwrite
                 /\ ~modal'.overwrite
                 /\ modal.ovPayload.text_id = d
                 /\ tasks'[Len(tasks')].payload = modal.ovPayload]_vars
    /\ [][overwriteCancel =>
              /\ ~modal'.overwrite
              /\ UNCHANGED <<tasks, backend, current, cursor, annotations, relations,
                             saved, dirty>>]_vars

\* the overwrite was confirmed: the write for a document whose record holds entities
\* is in flight
C6_Witness ==
    /\ ~modal.overwrite
    /\ \E t \in 1..Len(tasks) :
           /\ tasks[t].pc = "write"
           /\ tasks[t].origin = "confirm"
           /\ tasks[t].overwrite
           /\ Len(backend[tasks[t].arg].entities) > 0

\* C7: a save that is not skipped while a relation is invalid issues no request and
\* leaves the document, the entities, the relations and the dirty flag as they are
C7_InvalidSaveAborts ==
    [][(/\ saveClick(MaxTasks)
        /\ ~(saved.exists /\ ~dirty)
        /\ \E i \in 1..Len(relations) :
               ~RelationValid(relationsMeta, annotations, relations[i]))
       => UNCHANGED <<tasks, backend, current, cursor, annotations, relations, saved,
                      dirty>>]_vars

\* a save was aborted: a row shows the message of the validator, nothing is in flight
C7_Witness ==
    /\ tasks = <<>>
    /\ dirty
    /\ \E w \in 1..Len(relRows) : relRows[w].live /= 0 /\ relRows[w].err = MsgIncomplete

\* C8: when loadTextResponse finishes, with a record, without one or with a failed
\* fetch, the entities and the relations are only items hydrated from the record of
\* the loaded document, and the selection is null/null
C8_LoadResetsModel ==
    [][(\E t \in 1..MaxTasks, o \in Outcomes : RespAnnotation(t, o)) =>
          LET rec == backend[current.id]
              ents == hydrateEntities(tokens, rec.entities)
          IN /\ \A i \in 1..Len(annotations') : annotations'[i] \in Range(ents)
             /\ \A i \in 1..Len(relations') :
                    relations'[i] \in Range(hydrateRelations(ents, rec.relations))
             /\ selection' = NoSelection]_vars

-----------------------------------------------------------------------------
(* Saving drawn documents *)

\* the stores a drawn document is saved over: no record, or a record with entities
DrawnStores ==
    {[c \in DocIds |-> IF c = 0 THEN r0 ELSE NoRecord] : r0 \in {NoRecord, SavedDoc0}}

\* the validator and the save handler, with the answers of the service
NextDrawnSave ==
    \/ Validate
    \/ saveClick(MaxTasks)
    \/ \E t \in 1..MaxTasks, o \in Outcomes : RespExists(t, o)
    \/ overwriteConfirm(MaxTasks)
    \/ overwriteCancel
    \/ \E t \in 1..MaxTasks, o \in Outcomes : RespWrite(t, o)
    \/ \E t \in 1..MaxTasks, o \in Outcomes : RespText(t, o)
    \/ \E t \in 1..MaxTasks, o \in Outcomes : RespAnnotation(t, o)

SpecDrawnSave == DrawnDocument(DrawnStores) /\ [][NextDrawnSave]_vars

\* the entity attributes of the spec of a predicate, none where the schema has no such
\* predicate
EntityAttrs(meta, predicate) ==
    IF HasKey(meta, predicate)
    THEN Filter(Get(meta, predicate).attributes, LAMBDA a : a.v.kind = "entity")
    ELSE <<>>

\* a relation with these endpoints, predicate and attributes has a reference that is
\* the id of none of the entities ids: an endpoint, or the value of an entity attribute
HasDangling(meta, ids, subject, object, predicate, attrs) ==
    \/ subject \notin ids
    \/ object \notin ids
    \/ \E k \in 1..Len(EntityAttrs(meta, predicate)) :
           LET v == Get(attrs, EntityAttrs(meta, predicate)[k].k)
           IN v \notin {Undef, Null, ""} /\ v \notin ids

\* the relations of a payload or of a stored record all refer to its entities
NoDanglingIn(meta, p) ==
    \A i \in 1..Len(p.relations) :
        ~HasDangling(meta, {p.entities[j].id : j \in 1..Len(p.entities)},
                     p.relations[i].subject, p.relations[i].object,
                     p.relations[i].predicate, p.relations[i].attributes)

\* C12: the validator never passes a relation whose subject, object or entity
\* attribute value is the id of no entity, so no payload of a request, no payload
\* waiting for the overwrite confirmation and no stored record holds such a relation
C12_DanglingCaught ==
    /\ [][Validate =>
             ((\E i \in 1..Len(relations) :
                  HasDangling(relationsMeta,
                              {annotations[j].id : j \in 1..Len(annotations)},
                              relations[i].subject, relations[i].object,
                              relations[i].predicate, relations[i].attrs))
              => ~returned'.ok /\ \E i \in 1..Len(relations) : returned'.reasons[i] /= "")]_vars
    /\ [](/\ \A t \in 1..Len(tasks) :
                tasks[t].pc \in {"exists", "write"} => NoDanglingIn(relationsMeta, tasks[t].payload)
          /\ modal.overwrite => NoDanglingIn(relationsMeta, modal.ovPayload)
          /\ \A d \in DocIds : NoDanglingIn(relationsMeta, backend[d]))

\* a relation with an entity attribute has passed the validator and its write is in
\* flight, and the validator has been called on the document
C12_Witness ==
    /\ returned.done
    /\ \E t \in 1..Len(tasks) :
           /\ tasks[t].pc = "write"
           /\ Len(tasks[t].payload.relations) = 1
           /\ Get(tasks[t].payload.relations[1].attributes, "via") = "T2"

\* the attribute names a relation stores that its predicate's spec does not declare
UndeclaredAttrs(meta, predicate, attrs) ==
    {n \in Range(Keys(attrs)) :
        ~HasKey(meta, predicate) \/ ~HasKey(Get(meta, predicate).attributes, n)}

\* C13: the validator passes no relation that stores an attribute name its predicate's
\* spec does not declare, and no payload of a request holds such a relation
C13_OnlySpecAttrs ==
    /\ [][Validate =>
             \A i \in 1..Len(relations) :
                 UndeclaredAttrs(relationsMeta, relations[i].predicate,
                                 relations[i].attrs) /= {}
                 => returned'.reasons[i] /= "" /\ ~returned'.ok]_vars
    /\ [](\A t \in 1..Len(tasks) :
             tasks[t].pc \in {"exists", "write"} =>
                 \A i \in 1..Len(tasks[t].payload.relations) :
                     UndeclaredAttrs(relationsMeta, tasks[t].payload.relations[i].predicate,
                                     tasks[t].payload.relations[i].attributes) = {})

-----------------------------------------------------------------------------
(* Editing relations over three entities *)

\* most rows of the relation area
MaxRowRels == 2

\* what a drag onto the relation area carries: the id of a chip, or a text that is
\* the id of no entity
DragTexts == EntIds \cup {"T9"}

\* an unsaved document with the three entities and no relation yet
RelationsInit == CascadeInit /\ relations = <<>>

NextRelations ==
    \/ \E text \in DragTexts : relsDrop(MaxRowRels, text)
    \/ \E w \in 1..MaxRowRels, side \in {"subject", "object"}, id \in EntIds :
           placeholderDrop(w, side, id)
    \/ \E w \in 1..MaxRowRels : relRowRemove(w)
    \/ \E w \in 1..MaxRowRels : openRelationModal(w)
    \/ \E name \in {"works_for", "knows"} : relSelectChange(name)
    \/ closeRelationModal
    \/ relModalDelete
    \/ confirmRelation

SpecRelations == RelationsInit /\ [][NextRelations]_vars

\* the relation confirmRelation edits, 0 when there is none
Edited == FindIdx(relations, LAMBDA r : r.id = relEditingId)

\* the schema permits class l as subject and class r as object of predicate name
Permits(meta, name, l, r) ==
    HasKey(meta, name) /\ l \in Get(meta, name).subject /\ r \in Get(meta, name).object

\* C14: when a predicate is confirmed on a relation whose two endpoints are entities,
\* subject and object are swapped if the schema permits the pair only with the object
\* as subject and the subject as object, and are left as they are otherwise
C14_ReverseCorrected ==
    [][(confirmRelation /\ Edited /= 0) =>
          LET rel == relations[Edited]
              l == classOf(annotations, rel.subject)
              r == classOf(annotations, rel.object)
              name == modal.relValue
          IN (l /= Null /\ r /= Null) =>
                 IF Permits(relationsMeta, name, r, l) /\ ~Permits(relationsMeta, name, l, r)
                 THEN /\ relations'[Edited].subject = rel.object
                      /\ relations'[Edited].object = rel.subject
                 ELSE /\ relations'[Edited].subject = rel.subject
                      /\ relations'[Edited].object = rel.object]_vars

\* works_for was confirmed on a relation of a Person and an Org, and knows on a
\* relation of two Persons
C14_Witness ==
    /\ ~modal.relation
    /\ Len(relations) = 2
    /\ relations[1].predicate = "works_for" /\ relations[1].attrOrder.has
    /\ relations[1].subject = "T3" /\ relations[1].object = "T2"
    /\ relations[2].predicate = "knows" /\ relations[2].attrOrder.has
    /\ relations[2].subject = "T3" /\ relations[2].object = "T1"

C16_NoSelfRelation ==
    /\ [](\A i \in 1..Len(relations) :
              ~(relations[i].subject /= Null /\ relations[i].subject = relations[i].object))
    /\ [][\A w \in 1..MaxRowRels, id \in EntIds :
              /\ (placeholderDrop(w, "subject", id) /\ relRows[w].rel.object = id)
                     => relations' = relations
              /\ (placeholderDrop(w, "object", id) /\ relRows[w].rel.subject = id)
                     => relations' = relations]_vars

\* the object of a relation with no predicate was set by a drop on its placeholder,
\* where the comparison with the subject is the one test of the entity dropped
C16_Witness ==
    /\ Len(relations) = 2
    /\ relations[1].predicate = Null /\ relations[2].predicate = Null
    /\ relations[1].subject = "T1" /\ relations[1].object = "T3"
    /\ relations[2].subject = "T3" /\ relations[2].object = "T1"

\* the classes the schema lists for a role of predicate name
RoleList(meta, name, side) ==
    IF ~HasKey(meta, name) THEN {}
    ELSE IF side = "subject" THEN Get(meta, name).subject ELSE Get(meta, name).object

\* C17: a drop of an entity on the subject (object) placeholder of a relation with a
\* predicate changes the relation only if the class of the entity is in the subject
\* (object) list of the predicate; when it is not, every relation keeps its subject,
\* object, predicate and attributes
C17_DropNeedsPermittedClass ==
    [][\A w \in 1..MaxRowRels, side \in {"subject", "object"}, id \in EntIds :
          (/\ placeholderDrop(w, side, id)
           /\ ~Falsy(relRows[w].rel.predicate)
           /\ classOf(annotations, id) \notin
                  RoleList(relationsMeta, relRows[w].rel.predicate, side))
          => /\ Len(relations') = Len(relations)
             /\ \A i \in 1..Len(relations) :
                    /\ relations'[i].subject = relations[i].subject
                    /\ relations'[i].object = relations[i].object
                    /\ relations'[i].predicate = relations[i].predicate
                    /\ relations'[i].attrs = relations[i].attrs]_vars

\* works_for is the predicate of two relations: the first took the Person T1 on its
\* subject placeholder, the second still shows that placeholder
C17_Witness ==
    /\ Len(relations) = 2
    /\ relations[1].predicate = "works_for" /\ relations[2].predicate = "works_for"
    /\ relations[1].subject = "T1" /\ relations[1].object = "T2"
    /\ relations[2].subject = Null /\ relations[2].object = "T2"
    /\ relRows[2].phS

\* C18: a drop on the relation area of a text that is the id of no entity leaves the
\* relations and the dirty flag as they are, and a drop of the id of an entity appends
\* one relation with id R<n+1> (n the number of relations), that subject, and no
\* object and no predicate
C18_CreateNeedsEntity ==
    [][\A text \in DragTexts :
          relsDrop(MaxRowRels, text) =>
              IF entityIdx(annotations, text) = 0
              THEN relations' = relations /\ dirty' = dirty
              ELSE /\ Len(relations') = Len(relations) + 1
                   /\ SubSeq(relations', 1, Len(relations)) = relations
                   /\ LET made == relations'[Len(relations')]
                      IN /\ made.id = "R" \o ToString(Len(relations) + 1)
                         /\ made.subject = text
                         /\ made.object = Null
                         /\ made.predicate = Null]_vars

\* the sequence s without its element at position i
AllBut(s, i) == SubSeq(s, 1, i - 1) \o SubSeq(s, i + 1, Len(s))

\* C19: also when two relations have the same id, the remove button of a row removes
\* the relation of that row and no other, and the delete button of the relation
\* editor removes one relation; every other relation stays, unchanged and in order
C19_RepeatedIdsHarmless ==
    [][/\ \A w \in 1..MaxRowRels :
              (relRowRemove(w) /\ relRows[w].live /= 0)
                  => relations' = AllBut(relations, relRows[w].live)
       /\ (relModalDelete /\ Edited /= 0)
              => \E i \in 1..Len(relations) : relations' = AllBut(relations, i)]_vars

-----------------------------------------------------------------------------
(* Annotating across documents *)

\* the annotator has skipped to the second text over a saved first one, and from there
\* selects tokens, makes and edits entities, and goes back; the service answers or fails
NextAnnotate ==
    \/ \E idx \in 0..3 : onMouseDown(idx)
    \/ \E idx \in 0..3 : onMouseMove(idx)
    \/ onMouseUp
    \/ clearSelection
    \/ openEntityModal("create", Null)
    \/ \E id \in EntIds : openEntityModal("edit", id)
    \/ closeEntityModal
    \/ \E klass \in ClassNames : confirmSaveAnnotation(klass, <<"x">>, "")
    \/ prevClick(MaxTasks)
    \/ \E t \in 1..MaxTasks, o \in Outcomes : RespText(t, o)
    \/ \E t \in 1..MaxTasks, o \in Outcomes : RespAnnotation(t, o)

SpecAnnotate ==
    /\ Loaded({[c \in DocIds |-> IF c = 0 THEN SavedDoc0 ELSE r1] :
                  r1 \in {NoRecord, SavedDoc1}}, 1)
    /\ [][NextAnnotate]_vars

\* C20: the token range of every entity is the token range spanToTokenRange gives for
\* the span of the entity over the tokens of the text that is loaded
C20_TokenRangeFromSpan ==
    \A i \in 1..Len(annotations) :
        annotations[i].tokenRange = spanToTokenRange(tokens, annotations[i].span)

\* on the second text, the entity hydrated from the saved record stands beside one made
\* from a selection of both tokens
C20_Witness ==
    /\ current.id = 1
    /\ Len(annotations) = 2
    /\ annotations[1].label = <<"c">> /\ annotations[1].tokenRange = <<0, 0>>
    /\ annotations[2].label = <<"x">> /\ annotations[2].tokenRange = <<0, 1>>
    /\ annotations[2].span = [start |-> 0, end |-> 2]

-----------------------------------------------------------------------------
(* Tokens, spans and surface forms over drawn texts *)

\* longest text drawn
MaxTextLen == 4

\* a text with no saved record has been loaded: any text of up to MaxTextLen
\* characters, each a word character, a blank, a tab or a punctuation mark
TextsInit ==
    /\ relationsMeta = SessionMeta
    /\ backend = [c \in DocIds |-> NoRecord]
    /\ \E txt \in UNION {[1..n -> {"a", " ", "\t", "."}] : n \in 0..MaxTextLen} :
           current = [id |-> 0, text |-> txt]
    /\ cursor = 0
    /\ selection = NoSelection
    /\ annotations = <<>>
    /\ relations = <<>>
    /\ saved = [exists |-> FALSE, wasEmpty |-> FALSE]
    /\ dirty = FALSE
    /\ dragging = FALSE
    /\ uiMode = "create"
    /\ uiEditId = Null
    /\ relEditingId = Null
    /\ modal = ModalClosed
    /\ legend = {}
    /\ relRows = <<>>
    /\ addEnabled = FALSE
    /\ domSelected = {}
    /\ domAnnotated = {}
    /\ tasks = <<>>
    /\ returned = NoResult

\* a function of the loaded text is applied to arg and its value kept
Applied(fn, arg, value) ==
    /\ returned' = [done |-> TRUE, fn |-> fn, arg |-> arg, value |-> value]
    /\ UNCHANGED <<relationsMeta, current, cursor, selection, annotations, relations,
                   saved, dirty, dragging, uiMode, uiEditId, relEditingId, modal, legend,
                   relRows, addEnabled, domSelected, domAnnotated, tasks, backend>>

\* tokenizeWithOffsets(state.current.text), as renderText calls it
CallTokenize == Applied("tokenizeWithOffsets", current.text, tokenizeWithOffsets(current.text))

\* spanToTokenRange({start, end}) over state.tokens
CallSpanToTokenRange(start, end) ==
    Applied("spanToTokenRange", [start |-> start, end |-> end],
            spanToTokenRange(tokens, [start |-> start, end |-> end]))

\* surfaceFormFromSelection() with state.selection = {startIdx, endIdx}
CallSurfaceForm(startIdx, endIdx) ==
    Applied("surfaceFormFromSelection", [startIdx |-> startIdx, endIdx |-> endIdx],
            surfaceFormFromSelection(tokens, [startIdx |-> startIdx, endIdx |-> endIdx]))

NextTexts ==
    \/ CallTokenize
    \/ \E startIdx, endIdx \in {NoIdx} \cup 0..MaxTextLen :
           CallSurfaceForm(startIdx, endIdx)
    \/ \E start \in 0..MaxTextLen, end \in 1..(MaxTextLen + 1) :
           start < end /\ CallSpanToTokenRange(start, end)

SpecTexts == TextsInit /\ [][NextTexts]_vars

\* the indices of the non-space tokens whose character range meets [start, end)
Intersecting(toks, start, end) ==
    {i \in 0..(Len(toks) - 1) :
        ~Tok(toks, i).isSpace /\ Tok(toks, i).start < end /\ Tok(toks, i).end > start}

\* C21: for a span with start < end, spanToTokenRange gives the smallest and the
\* largest index of a non-space token whose character range meets [start, end), and
\* null when there is no such token; a pair it gives has i0 <= i1
C21_SpanToTokenRange ==
    (returned.done /\ returned.fn = "spanToTokenRange") =>
        LET hit == Intersecting(tokens, returned.arg.start, returned.arg.end)
        IN IF hit = {}
           THEN returned.value = <<NoIdx, NoIdx>>
           ELSE /\ returned.value[1] \in hit /\ \A i \in hit : returned.value[1] <= i
                /\ returned.value[2] \in hit /\ \A i \in hit : returned.value[2] >= i
                /\ returned.value[1] <= returned.value[2]

RECURSIVE Joined(_, _)
\* the texts of the tokens from position k on, concatenated
Joined(toks, k) == IF k > Len(toks) THEN <<>> ELSE toks[k].text \o Joined(toks, k + 1)

\* C22: the tokens of a text cover it with no gap and no overlap: the first starts at
\* 0, each starts where the one before ends, the last ends at the length of the text,
\* end - start is the length of the token's text, and the token texts concatenated in
\* order are the text
C22_TokensCoverText ==
    (returned.done /\ returned.fn = "tokenizeWithOffsets") =>
        LET toks == returned.value
            txt == returned.arg
        IN /\ Len(toks) > 0 => toks[1].start = 0
           /\ \A k \in 2..Len(toks) : toks[k].start = toks[k - 1].end
           /\ IF Len(toks) > 0 THEN toks[Len(toks)].end = Len(txt) ELSE Len(txt) = 0
           /\ \A k \in 1..Len(toks) : toks[k].end - toks[k].start = Len(toks[k].text)
           /\ Joined(toks, 1) = txt

\* the text 'a', blank, tab, '.' was tokenized into a word, a whitespace run of two
\* characters and a punctuation mark
C22_Witness ==
    /\ returned.done /\ returned.fn = "tokenizeWithOffsets"
    /\ returned.arg = <<"a", " ", "\t", ".">>
    /\ Len(returned.value) = 3
    /\ returned.value[2] = [text |-> <<" ", "\t">>, start |-> 1, end |-> 3, isSpace |-> TRUE]

\* every character of the token text t is of class cls
AllOf(t, cls) ==
    \A k \in 1..Len(t) :
        IF cls = "space" THEN IsSpaceCh(t[k])
        ELSE IF cls = "word" THEN IsWordCh(t[k])
        ELSE ~IsSpaceCh(t[k]) /\ ~IsWordCh(t[k])

\* C23: every token is non-empty and is a run of whitespace with isSpace true, or a
\* run of word characters with isSpace false, or one character that is neither with
\* isSpace false; no two adjacent tokens are both whitespace runs or both word runs
C23_TokenKinds ==
    (returned.done /\ returned.fn = "tokenizeWithOffsets") =>
        LET toks == returned.value
        IN /\ \A k \in 1..Len(toks) :
                  /\ Len(toks[k].text) > 0
                  /\ \/ AllOf(toks[k].text, "space") /\ toks[k].isSpace
                     \/ AllOf(toks[k].text, "word") /\ ~toks[k].isSpace
                     \/ /\ Len(toks[k].text) = 1
                        /\ AllOf(toks[k].text, "other")
                        /\ ~toks[k].isSpace
           /\ \A k \in 2..Len(toks) :
                  /\ ~(AllOf(toks[k - 1].text, "space") /\ AllOf(toks[k].text, "space"))
                  /\ ~(AllOf(toks[k - 1].text, "word") /\ AllOf(toks[k].text, "word"))

\* the text '..aa' was tokenized into two punctuation tokens and one word
C23_Witness ==
    /\ returned.done /\ returned.fn = "tokenizeWithOffsets"
    /\ returned.arg = <<".", ".", "a", "a">>
    /\ Len(returned.value) = 3
    /\ returned.value[1].text = <<".">> /\ returned.value[2].text = <<".">>
    /\ returned.value[3].text = <<"a", "a">>

Selected(toks, sel) ==
    {i \in sel.startIdx..sel.endIdx : i >= 0 /\ i < Len(toks) /\ ~Tok(toks, i).isSpace}

\* the text of token i and of the whitespace token right after it, if there is one
Piece(toks, i) ==
    Tok(toks, i).text \o
    (IF i + 1 < Len(toks) /\ Tok(toks, i + 1).isSpace THEN Tok(toks, i + 1).text ELSE <<>>)

RECURSIVE JoinedPieces(_, _, _)
\* the pieces of the j-th, (j+1)-th, ... smallest index of S, concatenated
JoinedPieces(toks, S, j) ==
    IF j > Cardinality(S) THEN <<>>
    ELSE Piece(toks, NthOf(S, j)) \o JoinedPieces(toks, S, j + 1)

\* C25: the surface text of a selection with both indices set is the texts of the
\* selected non-space tokens, each followed by the whitespace token right after it,
\* concatenated in order and trimmed; when both indices are non-space tokens with
\* startIdx <= endIdx it is the text from the start of the first to the end of the
\* last; a selection with a null index gives the empty string
C25_SurfaceForm ==
    (returned.done /\ returned.fn = "surfaceFormFromSelection") =>
        LET sel == returned.arg
        IN IF sel.startIdx = NoIdx \/ sel.endIdx = NoIdx
           THEN returned.value = <<>>
           ELSE /\ returned.value = Trim(JoinedPieces(tokens, Selected(tokens, sel), 1))
                /\ (/\ sel.startIdx \in TokenNodes(tokens)
                    /\ sel.endIdx \in TokenNodes(tokens)
                    /\ sel.startIdx <= sel.endIdx)
                   => returned.value = SubSeq(current.text,
                                              Tok(tokens, sel.startIdx).start + 1,
                                              Tok(tokens, sel.endIdx).end)

\* the surface text of the first and the third token of 'a', blank, '.', blank
C25_Witness ==
    /\ returned.done /\ returned.fn = "surfaceFormFromSelection"
    /\ current.text = <<"a", " ", ".", " ">>
    /\ returned.arg = [startIdx |-> 0, endIdx |-> 2]
    /\ returned.value = <<"a", " ", ".">>

\* C26: a token is drawn as annotated exactly when its index lies in the token range
\* of some entity, and as selected exactly when its index lies in the interval of the
\* selection
C26_HighlightsFollowState ==
    /\ domAnnotated =
           {i \in TokenNodes(tokens) :
               \E k \in 1..Len(annotations) :
                   annotations[k].tokenRange[1] <= i /\ i <= annotations[k].tokenRange[2]}
    /\ domSelected =
           {i \in TokenNodes(tokens) :
               /\ selection.startIdx /= NoIdx /\ selection.endIdx /= NoIdx
               /\ selection.startIdx <= i /\ i <= selection.endIdx}

-----------------------------------------------------------------------------
(* Navigation with requests that overlap *)

\* most handlers suspended at the same time when the buttons are clicked again before
\* the service has answered
MaxOverlap == 2

\* #btn-save and #btn-prev are clicked, also while an earlier click is still waiting,
\* and the service answers the requests in any order
NextOverlap ==
    \/ prevClick(MaxOverlap)
    \/ saveClick(MaxOverlap)
    \/ \E t \in 1..MaxOverlap, o \in Outcomes : RespText(t, o)
    \/ \E t \in 1..MaxOverlap, o \in Outcomes : RespAnnotation(t, o)
    \/ \E t \in 1..MaxOverlap, o \in Outcomes : RespExists(t, o)
    \/ overwriteConfirm(MaxOverlap)
    \/ overwriteCancel
    \/ \E t \in 1..MaxOverlap, o \in Outcomes : RespWrite(t, o)

SpecOverlap == Boot(Stores) /\ [][NextOverlap]_vars

\* C27: when a load ends, dirty is false, saved.exists is true exactly when the service
\* answered with a record for the text of that load, and saved.wasEmpty is true exactly
\* when the entity list of that record is empty; both are false when there is no
\* record or the request failed
C27_LoadedFlags ==
    [][\A t \in 1..MaxOverlap, o \in Outcomes :
          RespAnnotation(t, o) =>
              LET rec == backend[tasks[t].arg]
              IN /\ dirty' = FALSE
                 /\ saved' = IF o = "ok" /\ rec.exists
                             THEN [exists |-> TRUE, wasEmpty |-> Len(rec.entities) = 0]
                             ELSE [exists |-> FALSE, wasEmpty |-> FALSE]]_vars

\* C28: at most one load or save handler is waiting for an answer of the service
C28_OneOutstanding == Len(tasks) <= 1

\* C29: a save that fails leaves the loaded document, the entities, the relations and
\* the dirty flag as they were before the save action: no answer the save handler
\* receives changes any of them, except the text answer that loads the next document
C29_FailedSaveKeepsState ==
    [][\A t \in 1..MaxTasks, o \in Outcomes :
          (\/ RespExists(t, o)
           \/ RespWrite(t, o)
           \/ (RespText(t, "fail") /\ tasks[t].origin \in {"save", "confirm"}))
          => UNCHANGED <<current, cursor, annotations, relations, dirty>>]_vars

\* C30: at cursor 0 a click on #btn-prev issues no request; at a cursor above 0 it
\* issues one request, for the text at cursor - 1, and no existence check or write
C30_PrevUnavailableAtZero ==
    [][prevClick(MaxTasks) =>
          IF cursor = 0
          THEN UNCHANGED tasks
          ELSE /\ Len(tasks') = Len(tasks) + 1
               /\ tasks'[Len(tasks')].pc = "getText"
               /\ tasks'[Len(tasks')].arg = cursor - 1]_vars

-----------------------------------------------------------------------------
(* Editing the attributes of a relation *)

\* the user types or picks a value in the field #rel-attr-<name> of the modal: a select
\* takes one of its options, an input what is typed
relAttrInput(name, value) ==
    /\ modal.relation
    /\ HasKey(modal.relInputs, name)
    /\ HasKey(relationsMeta, modal.relValue)
    /\ LET aspec == Get(Get(relationsMeta, modal.relValue).attributes, name)
       IN /\ aspec.kind /= "entity"
          /\ aspec.kind = "enum" =>
                 \/ value \in Range(aspec.enum)
                 \/ value = "" /\ ~Falsy(aspec.nullable) /\ aspec.nullable /= "false"
          /\ aspec.kind /= "enum" => value \in {"", "7"}
    /\ Get(modal.relInputs, name) /= value
    /\ modal' = [modal EXCEPT !.relInputs = Put(@, name, value)]
    /\ UNCHANGED returned
    /\ UNCHANGED <<relationsMeta, current, cursor, selection, annotations, relations,
                   saved, dirty, dragging, uiMode, uiEditId, relEditingId, legend,
                   relRows, addEnabled, domSelected, domAnnotated, tasks, backend>>

\* wireRelAttrSorting: row i of the box of group g is dragged by its handle to place j
\* of the same box (each box moves only the row whose drag started in it)
relAttrDrag(g, i, j) ==
    /\ modal.relation
    /\ LET rows == OrderOf([modal.relFields EXCEPT !.edge = TRUE], g)
           rest == [k \in 1..(Len(rows) - 1) |-> IF k < i THEN rows[k] ELSE rows[k + 1]]
           moved == [k \in 1..Len(rows) |->
                        IF k < j THEN rest[k] ELSE IF k = j THEN rows[i] ELSE rest[k - 1]]
       IN /\ i \in 1..Len(rows)
          /\ j \in 1..Len(rows)
          /\ i /= j
          /\ modal' = [modal EXCEPT !.relFields =
                          IF g = "subject" THEN [@ EXCEPT !.subject = moved]
                          ELSE IF g = "object" THEN [@ EXCEPT !.object = moved]
                          ELSE [@ EXCEPT !.statement = moved]]
    /\ UNCHANGED returned
    /\ UNCHANGED <<relationsMeta, current, cursor, selection, annotations, relations,
                   saved, dirty, dragging, uiMode, uiEditId, relEditingId, legend,
                   relRows, addEnabled, domSelected, domAnnotated, tasks, backend>>

\* the first text loaded with its saved record: a Person, an Org and one relation
\* between them, under a schema whose predicates have attributes of every group:
\* works_for(Person -> Org) and employs(Org -> Person)
AttributesInit ==
    /\ \E order \in {<<>>,
                     << [k |-> "subject_role", v |-> "ceo"], [k |-> "edge_predicate", v |-> Null],
                        [k |-> "object_role", v |-> Null], [k |-> "since", v |-> Null],
                        [k |-> "note", v |-> ""] >>,
                     << [k |-> "subject_role", v |-> "dev"], [k |-> "edge_predicate", v |-> "7"],
                        [k |-> "object_role", v |-> Null], [k |-> "note", v |-> "7"],
                        [k |-> "since", v |-> NumberOf("7")] >>} :
           backend = [c \in DocIds |->
                         IF c = 0
                         THEN [SavedDoc0 EXCEPT !.relations[1].attributes = order]
                         ELSE NoRecord]
    /\ relationsMeta =
           << [k |-> "works_for",
               v |-> RelSpec({"Person"}, {"Org"},
                             << AttrSpec("since", "number", "true", <<>>, <<>>),
                                AttrSpec("subject_role", "enum", "false", <<"ceo", "dev">>, <<>>),
                                AttrSpec("edge_predicate", "text", Undef, <<>>, <<>>),
                                AttrSpec("note", "text", Undef, <<>>, <<>>),
                                AttrSpec("object_role", "text", "true", <<>>, <<>>) >>)],
              [k |-> "employs",
               v |-> RelSpec({"Org"}, {"Person"},
                             << AttrSpec("note", "text", Undef, <<>>, <<>>),
                                AttrSpec("object_role", "text", "true", <<>>, <<>>),
                                AttrSpec("since", "number", "true", <<>>, <<>>) >>)] >>
    /\ current = [id |-> TextAt(0).id, text |-> TextAt(0).text]
    /\ cursor = 0
    /\ selection = NoSelection
    /\ annotations = hydrateEntities(tokenizeWithOffsets(TextAt(0).text), backend[0].entities)
    /\ relations = hydrateRelations(annotations, backend[0].relations)
    /\ saved = [exists |-> TRUE, wasEmpty |-> FALSE]
    /\ dirty = FALSE
    /\ dragging = FALSE
    /\ uiMode = "create"
    /\ uiEditId = Null
    /\ relEditingId = Null
    /\ modal = ModalClosed
    /\ legend = renderLegend(annotations)
    /\ relRows = renderRelationships(annotations, relations)
    /\ addEnabled = FALSE
    /\ domSelected = {}
    /\ domAnnotated = applyAnnotationHighlights(tokenizeWithOffsets(TextAt(0).text), annotations)
    /\ tasks = <<>>
    /\ returned = NoResult

\* the relation editor with its fields
NextAttributes ==
    \/ openRelationModal(1)
    \/ \E name \in {"works_for", "employs"} : relSelectChange(name)
    \/ \E name \in {"subject_role", "edge_predicate", "object_role", "since", "note"},
          value \in {"", "7", "ceo", "dev"} : relAttrInput(name, value)
    \/ \E g \in {"subject", "object", "statement"}, i, j \in 1..2 : relAttrDrag(g, i, j)
    \/ closeRelationModal
    \/ confirmRelation

SpecAttributes == AttributesInit /\ [][NextAttributes]_vars

\* the names of the three lists of an attrOrder, one list after the other
Listed(r) == r.attrOrder.subject \o r.attrOrder.object \o r.attrOrder.statement

\* C31: the three lists of the attrOrder of a relation hold every attribute name of
\* its attrs other than edge_predicate exactly once and no other name, each name in
\* the list of its prefix
C31_AttrOrderIsPartition ==
    \A i \in 1..Len(relations) :
        LET r == relations[i]
        IN r.attrOrder.has =>
               /\ \A k, l \in 1..Len(Listed(r)) : Listed(r)[k] = Listed(r)[l] => k = l
               /\ Range(Listed(r)) = Range(Keys(r.attrs)) \ {"edge_predicate"}
               /\ Range(r.attrOrder.subject) \subseteq SubjectPrefixed
               /\ Range(r.attrOrder.object) \subseteq ObjectPrefixed
               /\ Range(r.attrOrder.statement) \cap
                      (SubjectPrefixed \cup ObjectPrefixed \cup {"edge_predicate"}) = {}

\* a relation loaded as works_for is confirmed as employs, its endpoints exchanged and
\* its statement rows in another order than the schema has them
C31_Witness ==
    /\ Len(relations) = 1
    /\ ~modal.relation
    /\ relations[1].predicate = "employs"
    /\ relations[1].subject = "T2"
    /\ relations[1].attrOrder.statement = <<"since", "note">>
    /\ relations[1].attrOrder.object = <<"object_role">>

-----------------------------------------------------------------------------
(* Editing an entity in place *)

\* C32: confirming the entity modal in edit mode replaces the class, label and attrs
\* of the entity with the edited id and nothing else: its id, span, tokenRange and
\* place, the other entities and the relations stay; with no entity of that id
\* nothing changes
C32_EditInPlace ==
    [][\A klass \in ClassNames, l \in Labels, raw \in Raws :
          (confirmSaveAnnotation(klass, l, raw) /\ uiMode = "edit") =>
              LET a == FindIdx(annotations, LAMBDA e : e.id = uiEditId)
              IN /\ relations' = relations
                 /\ Len(annotations') = Len(annotations)
                 /\ \A i \in 1..Len(annotations) : i /= a => annotations'[i] = annotations[i]
                 /\ a /= 0 =>
                        /\ annotations'[a].id = annotations[a].id
                        /\ annotations'[a].span = annotations[a].span
                        /\ annotations'[a].tokenRange = annotations[a].tokenRange
                        /\ annotations'[a].class = klass
                        /\ annotations'[a].attrs = entityAttrs(klass, raw)
                        /\ DOMAIN annotations'[a] = DOMAIN annotations[a]]_vars

\* the first of two entities has been given another class in edit mode, the relation
\* of the document still in place
C32_Witness ==
    /\ Len(annotations) = 2
    /\ annotations[1].id = "T1"
    /\ annotations[1].class = "Org"
    /\ annotations[1].label = <<"x">>
    /\ annotations[2].id = "T2"
    /\ Len(relations) = 1
    /\ uiMode = "edit"
    /\ uiEditId = "T1"
    /\ dirty
    /\ ~modal.entity

-----------------------------------------------------------------------------
(* Saving after edits *)

\* C33: a click on #btn-save takes the skip path only when the entities and relations
\* of the model are those the saved record of the document hydrates to
C33_EditsNotSkipped ==
    [][(/\ saveClick(MaxTasks)
        /\ Len(tasks') = Len(tasks) + 1
        /\ tasks'[Len(tasks')].origin = "skip")
       => /\ backend[current.id].exists
          /\ annotations = hydrateEntities(tokens, backend[current.id].entities)
          /\ relations = hydrateRelations(annotations, backend[current.id].relations)]_vars

-----------------------------------------------------------------------------
(* Saving after the classes of entities were edited *)

\* a session in which the annotator edits entities in the entity modal, navigates and
\* saves, over a service that answers
\* every request: a text request fails only past the last text of the corpus
NextReclassify ==
    \/ \E id \in EntIds : openEntityModal("edit", id)
    \/ closeEntityModal
    \/ \E klass \in ClassNames : confirmSaveAnnotation(klass, <<"x">>, "")
    \/ prevClick(MaxTasks)
    \/ saveClick(MaxTasks)
    \/ \E t \in 1..MaxTasks : RespText(t, "ok")
    \/ \E t \in 1..Len(tasks) : tasks[t].arg \notin DocIds /\ RespText(t, "fail")
    \/ \E t \in 1..MaxTasks : RespAnnotation(t, "ok")
    \/ \E t \in 1..MaxTasks : RespExists(t, "ok")
    \/ overwriteConfirm(MaxTasks)
    \/ overwriteCancel
    \/ \E t \in 1..MaxTasks : RespWrite(t, "ok")

\* an answer that is due arrives: every await of a handler is on a request to the
\* service. The answer to getAnnotation is the step that ends the task of a load
SpecReclassify ==
    /\ Init
    /\ [][NextReclassify]_vars
    /\ WF_vars(\E t \in 1..MaxTasks, o \in Outcomes : RespText(t, o))
    /\ WF_tasks(\E t \in 1..Len(tasks) : tasks[t].pc = "loadAnn" /\ tasks' = RemoveAt(tasks, t))
    /\ WF_vars(\E t \in 1..MaxTasks : RespExists(t, "ok"))
    /\ WF_vars(\E t \in 1..MaxTasks : RespWrite(t, "ok"))

\* C34: every relation of a write request has a subject whose class is in the subject
\* list of its predicate and an object whose class is in the object list
C34_WritesForward ==
    \A t \in 1..Len(tasks) :
        tasks[t].pc = "write" =>
            LET p == tasks[t].payload
                class(id) == LET S == {i \in 1..Len(p.entities) : p.entities[i].id = id}
                             IN IF S = {} THEN Null
                                ELSE p.entities[CHOOSE i \in S : \A j \in S : i <= j].class
            IN \A k \in 1..Len(p.relations) :
                   /\ HasKey(relationsMeta, p.relations[k].predicate)
                   /\ class(p.relations[k].subject) \in
                          Get(relationsMeta, p.relations[k].predicate).subject
                   /\ class(p.relations[k].object) \in
                          Get(relationsMeta, p.relations[k].predicate).object

-----------------------------------------------------------------------------
(* What overlapping loads leave in the model *)

\* C35: when no handler is waiting any more, the entities the model holds, the
\* relations between them and the saved flags it has set are those of the record of
\* the document in state.current
C35_LoadedIsCurrent ==
    tasks = <<>> =>
        LET rec == backend[current.id]
            ents == hydrateEntities(tokenizeWithOffsets(current.text), rec.entities)
        IN /\ saved.exists => rec.exists /\ saved.wasEmpty = (Len(rec.entities) = 0)
           /\ annotations /= <<>> => annotations = ents
           /\ annotations /= <<>> => relations = hydrateRelations(ents, rec.relations)

-----------------------------------------------------------------------------
(* Saving and loading again *)

\* the entities and relations loadTextResponse makes of the record the store keeps
\* of the payload built from the model
Reloaded ==
    LET rec == Stored(buildAnnotationPayload(current, annotations, relations))
        ents == hydrateEntities(tokenizeWithOffsets(current.text), rec.entities)
    IN [entities |-> ents, relations |-> hydrateRelations(ents, rec.relations)]

\* C36: for a model that passes validation, with every relation loaded or confirmed
\* in the relation editor, the payload stored and loaded again gives the same
\* entities and the same relations in the same order, the three lists of every
\* attrOrder included
C36_SaveLoadRoundTrip ==
    (/\ validateRelations(relationsMeta, annotations, relations).ok
     /\ \A i \in 1..Len(relations) : relations[i].attrOrder.has)
    => /\ Reloaded.entities = annotations
       /\ Reloaded.relations = relations

\* a valid model whose relation was confirmed as employs with the statement rows
\* dragged into another order than the schema has them and a number typed in
C36_Witness ==
    /\ validateRelations(relationsMeta, annotations, relations).ok
    /\ ~modal.relation
    /\ Len(relations) = 1
    /\ relations[1].predicate = "employs"
    /\ relations[1].attrOrder.statement = <<"since", "note">>
    /\ Get(relations[1].attrs, "since") = NumberOf("7")
    /\ Get(relations[1].attrs, "object_role") = Null
    /\ Len(annotations) = 2

-----------------------------------------------------------------------------
(* The order of the checks of the validator *)

\* the places of the attributes of the spec of r's predicate that r fails
FailingAttrs(meta, annos, r) ==
    {k \in 1..Len(Get(meta, r.predicate).attributes) :
        ~AttributeValid(annos, r, Get(meta, r.predicate).attributes[k].v)}

\* the messages the validator has for the attribute a
AttrMessages(a) ==
    {MsgMissing(a.name), MsgEnum(a.name), MsgNumber(a.name), MsgEntity(a.name, a.classes)}

\* C38: for every relation the validator reports the reason of the earliest check that
\* fails, in the order completeness, predicate in the schema, endpoints resolved,
\* endpoint classes, attributes in the order of the spec; it reports one reason per
\* relation, on the row of that relation, and none for a relation that passes, whatever
\* it reports for the relations before
C38_FirstFailureReported ==
    returned.done =>
        \A i \in 1..Len(relations) :
            LET r == relations[i]
                m == returned.reasons[i]
                incomplete == \/ r.subject \in {Null, ""}
                              \/ r.object \in {Null, ""}
                              \/ r.predicate \in {Null, "", " "}
                unknown == ~HasKey(relationsMeta, r.predicate)
                dangling == ~Resolves(annotations, r.subject) \/ ~Resolves(annotations, r.object)
                spec == Get(relationsMeta, r.predicate)
                sc == ResolvedClass(annotations, r.subject)
                oc == ResolvedClass(annotations, r.object)
                misfit == /\ ~(sc \in spec.subject /\ oc \in spec.object)
                          /\ ~(oc \in spec.subject /\ sc \in spec.object)
                K == FailingAttrs(relationsMeta, annotations, r)
            IN /\ relRows[i].err = m
               /\ IF incomplete THEN m = MsgIncomplete
                  ELSE IF unknown THEN m = MsgUnknown
                  ELSE IF dangling THEN m = MsgDangling
                  ELSE IF misfit THEN m = MsgClasses
                  ELSE IF K /= {}
                       THEN m \in AttrMessages(
                                spec.attributes[CHOOSE k \in K : \A j \in K : k <= j].v)
                  ELSE m = ""

\* the validator has run on two relations: the first has no object and a predicate
\* the schema does not know, the second lacks the required role
C38_Witness ==
    /\ returned.done
    /\ Len(relations) = 2
    /\ relations[1].object = Null
    /\ relations[1].predicate = "nope"
    /\ returned.reasons[1] = MsgIncomplete
    /\ relations[2].predicate = "works_for"
    /\ relations[2].object = "T2"
    /\ returned.reasons[2] = MsgMissing("role")

\* C38 as stated, with the four checks it lists: completeness, predicate in the
\* schema, endpoint classes, attributes
C38_FourChecksOnly ==
    returned.done =>
        \A i \in 1..Len(relations) :
            LET r == relations[i]
                m == returned.reasons[i]
                incomplete == \/ r.subject \in {Null, ""}
                              \/ r.object \in {Null, ""}
                              \/ r.predicate \in {Null, "", " "}
                unknown == ~HasKey(relationsMeta, r.predicate)
                spec == Get(relationsMeta, r.predicate)
                fits == /\ Resolves(annotations, r.subject)
                        /\ Resolves(annotations, r.object)
                        /\ LET sc == ResolvedClass(annotations, r.subject)
                               oc == ResolvedClass(annotations, r.object)
                           IN \/ sc \in spec.subject /\ oc \in spec.object
                              \/ oc \in spec.subject /\ sc \in spec.object
                K == FailingAttrs(relationsMeta, annotations, r)
            IN IF incomplete THEN m = MsgIncomplete
               ELSE IF unknown THEN m = MsgUnknown
               ELSE IF ~fits THEN m = MsgClasses
               ELSE IF K /= {}
                    THEN m \in AttrMessages(
                             spec.attributes[CHOOSE k \in K : \A j \in K : k <= j].v)
               ELSE m = ""

-----------------------------------------------------------------------------
(* Advancing after a save or a skip *)

\* the requests for a next text that save handlers wait on
Advances(ts) ==
    {t \in 1..Len(ts) : ts[t].pc = "getText" /\ ts[t].origin \in {"skip", "save", "confirm"}}

\* document d is loaded and clean: what the store holds for it is in the model, the
\* flags of the store are recorded and nothing is unsaved
LoadedClean(d) ==
    LET rec == backend[d]
        ents == hydrateEntities(tokenizeWithOffsets(TextAt(d).text), rec.entities)
    IN /\ tasks = <<>>
       /\ current = [id |-> TextAt(d).id, text |-> TextAt(d).text]
       /\ cursor = d
       /\ ~dirty
       /\ saved = [exists |-> rec.exists, wasEmpty |-> rec.exists /\ Len(rec.entities) = 0]
       /\ rec.exists => annotations = ents /\ relations = hydrateRelations(ents, rec.relations)
       /\ legend = renderLegend(annotations)
       /\ relRows = renderRelationships(annotations, relations)

-----------------------------------------------------------------------------
(* One drag over the tokens *)

\* drags over a loaded text, each begun with the mouse pressed on the last token of
\* the text
NextDrag ==
    \/ \E idx \in 0..MaxTextLen :
           /\ \A i \in TokenNodes(tokens) : i <= idx
           /\ onMouseDown(idx)
    \/ \E idx \in 0..MaxTextLen : onMouseMove(idx)
    \/ onMouseUp

SpecDrag == TextsInit /\ [][NextDrag]_vars

\* C37: during a drag the selection is the interval between the token the mouse was
\* pressed on and the token it is over; when the drag began on the last token of the
\* text, that token stays the end of the selection
C37_SelectionFollowsAnchor ==
    dragging =>
        /\ selection.endIdx \in TokenNodes(tokens)
        /\ \A i \in TokenNodes(tokens) : i <= selection.endIdx
        /\ selection.startIdx \in TokenNodes(tokens)

====
